---- MODULE Spec2Model ----
(***************************************************************************)
(* EigoKit backend: the multi-role authorization gate (app/auth.py,        *)
(* app/routers/schools.py) and the icon-sequence student credentials       *)
(* (app/services/icon_password.py, app/routers/auth.py,                    *)
(* app/routers/teachers.py).                                               *)
(*                                                                         *)
(* Every handler is one action: the handlers are `async def` bodies that   *)
(* never await, so one handler runs to completion before the next starts.  *)
(* Each action leaves in `last` the request it served and the response it  *)
(* gave; the store after the action is the store that response was         *)
(* computed on (for the read-only handlers) or produced (for the others).  *)
(* Two server processes on the same database do interleave, one database   *)
(* call at a time: SpecRace runs the palette and sequence handlers that    *)
(* way, with what each process holds between its calls in `requests`.      *)
(***************************************************************************)
EXTENDS Integers, Sequences, FiniteSets, TLC

VARIABLES user_roles, school_admin_invitations, now, password_icons, students,
          teacher_schools, teachers, users, auth_users, requests, last

vars == <<user_roles, school_admin_invitations, now, password_icons, students,
          teacher_schools, teachers, users, auth_users, requests, last>>

\* server processes, and a process that serves no request
Workers == {"w1", "w2"}
IdleRequest == [pc |-> "idle"]
NoRequests == [w \in Workers |-> IdleRequest]

\* the tables of the teacher and account handlers
accounts == <<teacher_schools, teachers, users, auth_users>>

(***************************************************************************)
(* Bounds of the model.                                                    *)
(***************************************************************************)
\* the clock runs over 0..MaxTime
MaxTime == 2
\* number of user_roles rows the store holds at start
MaxGrants == 2

\* SQL NULL of a text column (school_id)
NULL == "null"
\* SQL NULL of a timestamp column is <<>>, a value t is <<t>>
NoTime == <<>>

Users == {"u1", "u2"}
\* the e-mail address of an account; supabase.auth gives each address one user id
EmailOf(uid) == IF uid = "u1" THEN "e1" ELSE "e2"
Emails == {EmailOf(uid) : uid \in Users}
UserOfEmail(email) == CHOOSE uid \in Users : EmailOf(uid) = email
\* a row of the users table
UserRow(uid) == [id |-> uid, email |-> EmailOf(uid)]
Schools == {"A", "B"}
\* models.py UserRole
STUDENT == "student"
TEACHER == "teacher"
SCHOOL_ADMIN == "school_admin"
PLATFORM_ADMIN == "platform_admin"
UserRole == {STUDENT, TEACHER, SCHOOL_ADMIN, PLATFORM_ADMIN}

\* the expiry instants a row of the initial store may carry are 1..MaxExpiry
MaxExpiry == 1

Times == 0..MaxTime
ExpiryValues == {NoTime} \cup {<<t>> : t \in 1..MaxExpiry}

\* one row of user_roles; (user_id, role, school_id) is its conflict key
GrantRow(uid, role, sid, active, exp) ==
    [user_id |-> uid, role |-> role, school_id |-> sid, is_active |-> active,
     expires_at |-> exp]

GrantKey(g) == <<g.user_id, g.role, g.school_id>>

KeyUnique(rows) == \A g, h \in rows : GrantKey(g) = GrantKey(h) => g = h

(***************************************************************************)
(* Expiry test shared by every role check: the loop body                   *)
(*   if expires_at is None: return user                                    *)
(*   ... if exp_dt > now: return user                                      *)
(***************************************************************************)
NotExpired_Mutant(row, t) ==
    IF row.expires_at = NoTime THEN TRUE ELSE row.expires_at[1] >= t

NotExpired(row, t) ==
    IF row.expires_at = NoTime THEN TRUE ELSE row.expires_at[1] > t

\* for role in <query>.data: ... return user
AnyNotExpired(rows, t) == \E row \in rows : NotExpired(row, t)

(***************************************************************************)
(* app/auth.py require_role.role_checker                                   *)
(***************************************************************************)
school_scoped_roles == {SCHOOL_ADMIN, TEACHER}
platform_level_roles == {PLATFORM_ADMIN}

\* line 45: .eq(user_id).eq(role, platform_admin).is_(school_id, null).eq(is_active, True)
PlatformAdminCheck(uid) ==
    {g \in user_roles : g.user_id = uid /\ g.role = PLATFORM_ADMIN
                          /\ g.school_id = NULL /\ g.is_active}

SchoolScopedQuery_Mutant(uid, roles, sid) ==
    {g \in user_roles : g.user_id = uid /\ g.role \in roles /\ g.is_active
                          /\ (sid # NULL => g.school_id = sid)}

SchoolScopedQuery_NullOnly(uid, roles, sid) ==
    {g \in user_roles : g.user_id = uid /\ g.role \in roles /\ g.is_active
                          /\ (IF sid # NULL THEN g.school_id \in {sid, NULL}
                              ELSE g.school_id = NULL)}

\* lines 83-88: with a school_id, .or_(school_id.eq.X, school_id.is.null); without, any school_id
SchoolScopedQuery(uid, roles, sid) ==
    {g \in user_roles : g.user_id = uid /\ g.role \in roles /\ g.is_active
                          /\ (sid # NULL => g.school_id \in {sid, NULL})}

\* line 117: .in_(role, platform_values).eq(is_active, True).is_(school_id, null)
PlatformLevelQuery(uid, roles) ==
    {g \in user_roles : g.user_id = uid /\ g.role \in roles /\ g.is_active
                          /\ g.school_id = NULL}

Granted == [status |-> 200, detail |-> "user"]
Forbidden == [status |-> 403, detail |-> "Insufficient permissions"]
\* lines 143-162 read roles_result, which no branch bound: an unhandled UnboundLocalError
ServerError == [status |-> 500, detail |-> "Internal Server Error"]

role_checker(uid, allowed_roles, sid) ==
    LET allowed_school_scoped == allowed_roles \cap school_scoped_roles
        allowed_platform_level == allowed_roles \cap platform_level_roles
        scoped == SchoolScopedQuery(uid, allowed_school_scoped, sid)
        platform == PlatformLevelQuery(uid, allowed_platform_level)
        \* roles_result as the last branch taken left it
        roles_result == IF allowed_platform_level # {} THEN platform ELSE scoped
    IN  IF PLATFORM_ADMIN \in allowed_roles /\ AnyNotExpired(PlatformAdminCheck(uid), now)
          THEN Granted
        ELSE IF allowed_school_scoped # {} /\ AnyNotExpired(scoped, now)
          THEN Granted
        ELSE IF allowed_platform_level # {} /\ AnyNotExpired(platform, now)
          THEN Granted
        ELSE IF allowed_school_scoped = {} /\ allowed_platform_level = {}
          THEN ServerError
        ELSE IF AnyNotExpired(roles_result, now)
          THEN Granted
        ELSE Forbidden

(***************************************************************************)
(* app/routers/schools.py check_school_access                              *)
(***************************************************************************)
\* maybe_single(): more than one row is an APIError, which the outer except turns into False
MaybeSingleFails(rows) == Cardinality(rows) > 1

SchoolAdminRole_Mutant(uid, sid) ==
    {g \in user_roles : g.user_id = uid /\ g.role = SCHOOL_ADMIN /\ g.is_active}

\* line 37: .eq(user_id).eq(role, school_admin).eq(school_id, school_id).eq(is_active, True)
SchoolAdminRole(uid, sid) ==
    {g \in user_roles : g.user_id = uid /\ g.role = SCHOOL_ADMIN
                          /\ g.school_id = sid /\ g.is_active}

check_school_access(uid, sid) ==
    LET platform_admin_role == PlatformAdminCheck(uid)
        school_admin_role == SchoolAdminRole(uid, sid)
    IN  IF MaybeSingleFails(platform_admin_role) THEN FALSE
        ELSE IF AnyNotExpired(platform_admin_role, now) THEN TRUE
        ELSE IF MaybeSingleFails(school_admin_role) THEN FALSE
        ELSE AnyNotExpired(school_admin_role, now)

(***************************************************************************)
(* The role store at start: rows written by invitation acceptance or by    *)
(* the database administrator (platform_admin rows and expiry dates have   *)
(* no writer in the application).                                          *)
(***************************************************************************)
\* platform_admin rows are platform-wide; school_admin and teacher rows name a school
\* or, as a wildcard, none. Rows start active: is_active = False is written by
\* delete_school_admin only.
InitialRows ==
    {GrantRow(uid, PLATFORM_ADMIN, NULL, TRUE, exp) : uid \in Users, exp \in ExpiryValues}
    \cup {GrantRow(uid, role, sid, TRUE, exp) :
             uid \in Users, role \in {SCHOOL_ADMIN, TEACHER},
             sid \in Schools \cup {NULL}, exp \in ExpiryValues}

RECURSIVE RowSetsUpTo(_)
RowSetsUpTo(n) ==
    IF n = 0 THEN {{}}
    ELSE LET smaller == RowSetsUpTo(n - 1)
         IN  smaller \cup {rows \cup {g} : rows \in smaller, g \in InitialRows}

InitialRoleStores == {rows \in RowSetsUpTo(MaxGrants) : KeyUnique(rows)}

InvitationIds == {"i1"}

Idle == [op |-> "start"]

InitAuthz ==
    /\ user_roles \in InitialRoleStores
    /\ school_admin_invitations = {[id |-> "i1", school_id |-> "A", invitation_status |-> "pending"]}
    /\ now = 0
    /\ password_icons = [s \in Schools |-> <<>>]
    /\ students = <<>>
    /\ teacher_schools = <<>>
    /\ teachers = {}
    /\ users = {UserRow(uid) : uid \in Users}
    /\ auth_users = Users
    /\ requests = NoRequests
    /\ last = Idle

\* datetime.now(timezone.utc) moves on between requests
Tick ==
    /\ now < MaxTime
    /\ now' = now + 1
    /\ last' = [op |-> "tick"]
    /\ UNCHANGED <<requests, accounts, user_roles, school_admin_invitations, password_icons, students>>

\* the allowed_roles lists a route may pass: any non-empty list of the roles the
\* checker looks up, or the one role it never looks up
AllowedRoleSets == ((SUBSET {TEACHER, SCHOOL_ADMIN, PLATFORM_ADMIN}) \ {{}}) \cup {{STUDENT}}

\* what a role check leaves in user_roles: require_role and check_school_access
\* only select from the table; an expired row is passed over, never updated
RolesAfterCheck_Sweep(rows, t) ==
    {IF NotExpired(g, t) THEN g ELSE [g EXCEPT !.is_active = FALSE] : g \in rows}

RolesAfterCheck(rows, t) == rows

\* a request through Depends(require_role(allowed_roles, school_id))
RequireRole ==
    \E uid \in Users, allowed_roles \in AllowedRoleSets, sid \in Schools \cup {NULL} :
        /\ last' = [op |-> "require_role", user |-> uid, allowed_roles |-> allowed_roles,
                    school_id |-> sid, response |-> role_checker(uid, allowed_roles, sid)]
        /\ user_roles' = RolesAfterCheck(user_roles, now)
        /\ UNCHANGED <<requests, accounts, school_admin_invitations, now, password_icons, students>>

\* a call of check_school_access(user_id, school_id)
CheckSchoolAccess ==
    \E uid \in Users, sid \in Schools :
        /\ last' = [op |-> "check_school_access", user |-> uid, school_id |-> sid,
                    response |-> check_school_access(uid, sid)]
        /\ user_roles' = RolesAfterCheck(user_roles, now)
        /\ UNCHANGED <<requests, accounts, school_admin_invitations, now, password_icons, students>>

\* a call of check_school_access whose read of user_roles raises: the except
\* clause logs the error and the function returns False
CheckSchoolAccessReadFails ==
    \E uid \in Users, sid \in Schools :
        /\ last' = [op |-> "check_school_access_failed", user |-> uid, school_id |-> sid,
                    response |-> FALSE]
        /\ user_roles' = RolesAfterCheck(user_roles, now)
        /\ UNCHANGED <<requests, accounts, school_admin_invitations, now, password_icons, students>>

(***************************************************************************)
(* app/routers/schools.py delete_school_admin                              *)
(***************************************************************************)
\* lines 1305-1308: update is_active = False where user_id, role, school_id match
DeactivateRole_Mutant(admin_id, sid) == user_roles

\* a removal that deletes the row
DeactivateRole_Delete(admin_id, sid) ==
    {g \in user_roles : ~(g.user_id = admin_id /\ g.role = SCHOOL_ADMIN /\ g.school_id = sid)}

DeactivateRole(admin_id, sid) ==
    {IF g.user_id = admin_id /\ g.role = SCHOOL_ADMIN /\ g.school_id = sid
       THEN [g EXCEPT !.is_active = FALSE] ELSE g : g \in user_roles}

DeleteSchoolAdmin ==
    /\ \E uid \in Users, sid \in Schools, admin_id \in Users \cup InvitationIds :
         LET gate == role_checker(uid, {SCHOOL_ADMIN}, NULL)
             admin_role == SchoolAdminRole(admin_id, sid)
             invitation_check == {i \in school_admin_invitations :
                                     i.id = admin_id /\ i.school_id = sid
                                     /\ i.invitation_status = "pending"}
             Reply(r) == last' = [op |-> "delete_school_admin", user |-> uid,
                                  school_id |-> sid, admin_id |-> admin_id, response |-> r]
         IN  \/ /\ gate.status # 200
                /\ Reply(gate)
                /\ UNCHANGED <<user_roles, school_admin_invitations>>
             \/ /\ gate.status = 200
                /\ ~check_school_access(uid, sid)
                /\ Reply([status |-> 403, detail |-> "Access denied"])
                /\ UNCHANGED <<user_roles, school_admin_invitations>>
             \/ /\ gate.status = 200
                /\ check_school_access(uid, sid)
                /\ admin_role # {}
                /\ admin_id = uid
                /\ Reply([status |-> 400,
                          detail |-> "You cannot remove yourself from the school"])
                /\ UNCHANGED <<user_roles, school_admin_invitations>>
             \/ /\ gate.status = 200
                /\ check_school_access(uid, sid)
                /\ admin_role # {}
                /\ admin_id # uid
                /\ user_roles' = DeactivateRole(admin_id, sid)
                /\ Reply([status |-> 200,
                          detail |-> "Admin removed from school successfully"])
                /\ UNCHANGED school_admin_invitations
             \* no row: maybe_single().execute() gives an empty response, or (postgrest
             \* releases that return None for zero rows) admin_role.data raises
             \/ /\ gate.status = 200
                /\ check_school_access(uid, sid)
                /\ admin_role = {}
                /\ \/ /\ Reply(ServerError)
                      /\ UNCHANGED <<user_roles, school_admin_invitations>>
                   \/ /\ invitation_check # {}
                      /\ school_admin_invitations' =
                            {i \in school_admin_invitations : i.id # admin_id}
                      /\ Reply([status |-> 200,
                                detail |-> "Pending invitation deleted successfully"])
                      /\ UNCHANGED user_roles
                   \/ /\ invitation_check = {}
                      /\ Reply([status |-> 404,
                                detail |-> "Admin or invitation not found for this school"])
                      /\ UNCHANGED <<user_roles, school_admin_invitations>>
    /\ UNCHANGED <<requests, accounts, now, password_icons, students>>

NextAuthz ==
    Tick \/ RequireRole \/ CheckSchoolAccess \/ CheckSchoolAccessReadFails \/ DeleteSchoolAdmin

SpecAuthz == InitAuthz /\ [][NextAuthz]_vars

(***************************************************************************)
(* Icon passwords: app/services/icon_password.py                           *)
(***************************************************************************)
\* ALL_ICONS has ids 1..48; a school uses 9 of them, a student 5 of those
NumIcons == 48
PaletteSize == 9
SequenceLength == 5

\* random.sample is bounded: a palette is PaletteSize consecutive ids from an offset
\* in 0..MaxPaletteOffset, a draw reads SequenceLength consecutive palette
\* positions from a start in 1..MaxDrawStart, forwards or backwards
MaxPaletteOffset == 1
MaxDrawStart == 1
\* rows the students table may hold
MaxStudents == 3

Range(seq) == {seq[i] : i \in DOMAIN seq}

\* generate_school_password_icons: sorted(random.sample(range(1, 49), 9))
generate_school_password_icons ==
    {[i \in 1..PaletteSize |-> k + i] :
        k \in {o \in 0..MaxPaletteOffset : o + PaletteSize <= NumIcons}}

DrawPositions(n) ==
    LET starts == {i \in 1..MaxDrawStart : i + SequenceLength - 1 <= n}
    IN  {[k \in 1..SequenceLength |-> i + k - 1] : i \in starts}
        \cup {[k \in 1..SequenceLength |-> i + SequenceLength - k] : i \in starts}

Sample_Mutant(icons) ==
    {[k \in 1..SequenceLength |-> pos[k]] : pos \in DrawPositions(Len(icons))}

\* random.sample(school_password_icons, 5): 5 distinct positions of the list, in any order
Sample(icons) ==
    {[k \in 1..SequenceLength |-> icons[pos[k]]] : pos \in DrawPositions(Len(icons))}

\* generate_unique_icon_sequence's answer when it has none
None == <<>>

\* generate_unique_icon_sequence(school_password_icons, used_sequences, max_attempts):
\* the first draw outside used_sequences; every one of the max_attempts draws can
\* fall in used_sequences as soon as one draw can, and then a further draw is
\* returned whatever it is
max_attempts == 1000

\* the docstring's reading: None when no unique sequence was found
generate_unique_icon_sequence_Mutant(icons, used_sequences) ==
    IF Len(icons) < SequenceLength THEN {None}
    ELSE {d \in Sample(icons) : d \notin used_sequences}
            \cup (IF \E d \in Sample(icons) : d \in used_sequences THEN {None} ELSE {})

generate_unique_icon_sequence(icons, used_sequences) ==
    IF Len(icons) < SequenceLength THEN {None}
    ELSE LET unused == {d \in Sample(icons) : d \notin used_sequences}
             exhausted == max_attempts = 0 \/ \E d \in Sample(icons) : d \in used_sequences
         IN  (IF max_attempts > 0 THEN unused ELSE {})
             \cup (IF exhausted THEN Sample(icons) ELSE {})

(***************************************************************************)
(* The classes and students tables.  A student row's icon_sequence is      *)
(* NoSequence (SQL NULL) or Stored(list).                                  *)
(***************************************************************************)
Teachers == {"t1", "t2"}
ClassRows == {[id |-> "c1", school_id |-> "A", teacher_id |-> "t1"],
              [id |-> "c2", school_id |-> "B", teacher_id |-> "t2"]}
ClassIds == {c.id : c \in ClassRows}
ClassRow(class_id) == CHOOSE c \in ClassRows : c.id = class_id

NoSequence == <<>>
Stored(list) == <<list>>
\* a value no handler of this service writes (the column is written by other
\* clients of the database too): a JSON list of strings, or a JSON string, given
\* by its elements or characters
StoredJson(kind, tokens) == <<tokens, kind>>
IsListValue(value) == Len(value) = 1 \/ value[2] = "list"

\* supabase.table("classes").select("id").eq("school_id", school_id)
ClassIdsOfSchool(school_id) == {c.id : c \in {r \in ClassRows : r.school_id = school_id}}

\* table("students").select(...).in_("class_id", class_ids)
StudentsOfClasses(class_ids) ==
    LET Keep(st) == st.class_id \in class_ids
    IN  SelectSeq(students, Keep)

get_used_sequences_for_school_Mutant(school_id, student_id) ==
    LET class_ids == ClassIdsOfSchool(school_id)
        Keep(st) == st.class_id \in class_ids
        rows == SelectSeq(students, Keep)
    IN  {rows[i].icon_sequence[1] :
            i \in {j \in DOMAIN rows :
                      /\ rows[j].icon_sequence # NoSequence
                      /\ Len(rows[j].icon_sequence[1]) = SequenceLength}}

\* get_used_sequences_for_school(supabase_admin, school_id, student_id)
get_used_sequences_for_school(school_id, student_id) ==
    LET class_ids == ClassIdsOfSchool(school_id)
        Keep(st) == st.class_id \in class_ids /\ st.id # student_id
        rows == SelectSeq(students, Keep)
    IN  IF class_ids = {} THEN {}
        ELSE {rows[i].icon_sequence[1] :
                i \in {j \in DOMAIN rows :
                          /\ rows[j].icon_sequence # NoSequence
                          /\ Len(rows[j].icon_sequence[1]) = SequenceLength}}

\* no student is excluded from the collision check
NoStudent == 0

PaletteMissing_Mutant(stored) == TRUE

\* not password_icons or len(password_icons) != 9
PaletteMissing(stored) == stored = <<>> \/ Len(stored) # PaletteSize

\* generate_student_icon_sequence(supabase_admin, school_id, student_id): the pairs
\* (password_icons stored for the school afterwards, used_sequences it excluded,
\* sequence returned)
generate_student_icon_sequence(school_id, student_id) ==
    LET stored == password_icons[school_id]
        palettes == IF PaletteMissing(stored)
                      THEN generate_school_password_icons
                      ELSE {stored}
        used_sequences == get_used_sequences_for_school(school_id, student_id)
    IN  UNION {{[password_icons |-> icons, used_sequences |-> used_sequences,
                 sequence |-> sequence] :
                   sequence \in generate_unique_icon_sequence(icons, used_sequences)}
               : icons \in palettes}

(***************************************************************************)
(* Request inputs.                                                         *)
(***************************************************************************)
\* StudentSignIn.icon_sequence (List[int]) as submitted
SubmittedSequences ==
    {<<1, 2, 3, 4, 5>>, <<5, 4, 3, 2, 1>>, <<2, 3, 4, 5, 6>>, <<6, 5, 4, 3, 2>>,
     <<1, 2, 3, 4>>}

\* the school_id query parameter: a school with classes, or one without ("Z")
SigninSchools == Schools \cup {"Z"}

\* the icon_sequence form field, split at the commas; NoForm is an absent or empty field
NoForm == <<>>
FormSequences ==
    {<<"1", "2", "3", "4", "5">>, <<"5", "4", "3", "2", "1">>, <<"1", "2", "3", "4">>,
     <<"1", "x", "3", "4", "5">>}

\* int(x.strip()): the numeral's value, or ValueError
Numerals == <<"1", "2", "3", "4", "5", "6", "7", "8", "9", "10">>
IsNumeral(token) == \E i \in DOMAIN Numerals : Numerals[i] = token
IntOf(token) == CHOOSE i \in DOMAIN Numerals : Numerals[i] = token
RaisesValueError(form) == \E i \in DOMAIN form : ~IsNumeral(form[i])
ParseForm(form) == [i \in DOMAIN form |-> IntOf(form[i])]

StudentRow(id, class_id, icon_sequence, registration_status) ==
    [id |-> id, class_id |-> class_id, icon_sequence |-> icon_sequence,
     registration_status |-> registration_status]

\* table("students").insert(student_data): the new row goes last, under a fresh id
NewStudentId == Len(students) + 1

(***************************************************************************)
(* app/routers/auth.py signin_student                                      *)
(***************************************************************************)
SigninReply(status, detail, student_id) ==
    [status |-> status, detail |-> detail, student_id |-> student_id]

SequencesMatch_Mutant(db_sequence, input_sequence) ==
    Len(db_sequence) = Len(input_sequence) /\ Range(db_sequence) = Range(input_sequence)

\* db_sequence == input_sequence on two lists of int
SequencesMatch(db_sequence, input_sequence) == db_sequence = input_sequence

\* [int(x) for x in db_sequence]: int(x) of an int is that int, of a str the value
\* of its numeral, or ValueError
ConversionRaises(value) == Len(value) = 2 /\ RaisesValueError(value[1])
Converted(value) == IF Len(value) = 1 THEN value[1] ELSE ParseForm(value[1])

\* isinstance(db_sequence, list): the conversion runs outside the try
UncaughtConversion(value) == ConversionRaises(value) /\ IsListValue(value)

\* the loop over students.data: the positions whose row matches
MatchingPositions(rows, input_sequence) ==
    {i \in DOMAIN rows :
        IF rows[i].icon_sequence = NoSequence THEN FALSE
        ELSE IF ConversionRaises(rows[i].icon_sequence) THEN FALSE
        ELSE SequencesMatch(Converted(rows[i].icon_sequence), input_sequence)}

\* ... and the positions whose row makes the loop raise
RaisingPositions(rows) ==
    {i \in DOMAIN rows :
        IF rows[i].icon_sequence = NoSequence THEN FALSE
        ELSE UncaughtConversion(rows[i].icon_sequence)}

SigninClassIds_Mutant(school_id) == ClassIds

\* class_ids = [c["id"] for c in classes.data]
SigninClassIds(school_id) == ClassIdsOfSchool(school_id)

LengthCheckFails_Mutant(icon_sequence) == Len(icon_sequence) > SequenceLength

\* if len(signin.icon_sequence) != 5
LengthCheckFails(icon_sequence) == Len(icon_sequence) # SequenceLength

NoClassesReply_Mutant == SigninReply(404, "No classes found for this school", NoStudent)

NoClassesReply == SigninReply(401, "No classes found for this school", NoStudent)

\* the response and the tables read on the way to it
signin_student(icon_sequence, school_id) ==
    LET class_ids == SigninClassIds(school_id)
        rows == StudentsOfClasses(class_ids)
        hits == MatchingPositions(rows, icon_sequence)
        first == CHOOSE i \in hits : \A j \in hits : i <= j
        raising == RaisingPositions(rows)
    IN  IF LengthCheckFails(icon_sequence)
          THEN [reads |-> <<>>,
                response |-> SigninReply(400, "Icon sequence must contain exactly 5 icons",
                                         NoStudent)]
        ELSE IF class_ids = {}
          THEN [reads |-> <<"classes">>, response |-> NoClassesReply]
        ELSE IF rows = <<>>
          THEN [reads |-> <<"classes", "students">>,
                response |-> SigninReply(401, "No students found", NoStudent)]
        \* a row that raises before any row matches ends the request
        ELSE IF \E i \in raising : \A j \in hits : i < j
          THEN [reads |-> <<"classes", "students">>,
                response |-> SigninReply(500, "Internal Server Error", NoStudent)]
        ELSE IF hits # {}
          THEN [reads |-> <<"classes", "students">>,
                response |-> SigninReply(200, "Sign-in successful", rows[first].id)]
        ELSE [reads |-> <<"classes", "students">>,
              response |-> SigninReply(401, "Invalid icon sequence", NoStudent)]

SigninStudent ==
    \E icon_sequence \in SubmittedSequences, school_id \in SigninSchools :
        LET done == signin_student(icon_sequence, school_id)
        IN  /\ last' = [op |-> "signin_student", school_id |-> school_id,
                        icon_sequence |-> icon_sequence, reads |-> done.reads,
                        response |-> done.response]
            /\ UNCHANGED <<requests, accounts, user_roles, school_admin_invitations, now, password_icons,
                           students>>

(***************************************************************************)
(* Sign-in over a students table that holds rows of any stored form.       *)
(***************************************************************************)
\* rows of the table at start
MaxStoredRows == 2

StoredValues ==
    {NoSequence, Stored(<<1, 2, 3, 4, 5>>), Stored(<<5, 4, 3, 2, 1>>),
     StoredJson("list", <<"1", "2", "3", "4", "5">>),
     StoredJson("list", <<"1", "x", "3", "4", "5">>),
     StoredJson("text", <<"5", "4", "3", "2", "1">>),
     StoredJson("text", <<"1", "x", "3", "4", "5">>)}

StudentTables ==
    UNION {[1..n -> ClassIds \X StoredValues] : n \in 0..MaxStoredRows}

InitSignin ==
    /\ user_roles = {}
    /\ school_admin_invitations = {}
    /\ now = 0
    /\ password_icons = [s \in Schools |-> <<>>]
    /\ \E table \in StudentTables :
          students = [i \in DOMAIN table |->
                         StudentRow(i, table[i][1], table[i][2], "registered")]
    /\ teacher_schools = <<>>
    /\ teachers = {}
    /\ users = {}
    /\ auth_users = {}
    /\ requests = NoRequests
    /\ last = Idle

NextSignin == SigninStudent

SpecSignin == InitSignin /\ [][NextSignin]_vars

(***************************************************************************)
(* app/routers/teachers.py add_student                                     *)
(***************************************************************************)
Reply(status, detail) == [status |-> status, detail |-> detail]

\* what the handler leaves in `last`: the school of the class, whether the sequence
\* was generated, the row inserted (<<>> when none was)
AddStudentDone(school_id, generated, inserted, response) ==
    [op |-> "add_student", school_id |-> school_id, generated |-> generated,
     inserted |-> inserted, response |-> response]

TeacherAddStudentWith(forms) ==
    \E teacher_id \in Teachers, class_id \in ClassIds, form \in forms :
      LET school_id == ClassRow(class_id).school_id
          Refuse(response) ==
              /\ last' = AddStudentDone(school_id, FALSE, <<>>, response)
              /\ UNCHANGED <<password_icons, students>>
          Insert(icon_sequence, generated) ==
              LET row == StudentRow(NewStudentId, class_id, Stored(icon_sequence), "pending")
              IN  /\ students' = Append(students, row)
                  /\ last' = AddStudentDone(school_id, generated, <<row>>,
                                            Reply(200, "Student added"))
      IN  /\ Len(students) < MaxStudents
          /\ UNCHANGED <<requests, accounts, user_roles, school_admin_invitations, now>>
          /\ \/ /\ ClassRow(class_id).teacher_id # teacher_id
                /\ Refuse(Reply(403, "Not authorized for this class"))
             \/ /\ ClassRow(class_id).teacher_id = teacher_id
                /\ form # NoForm
                /\ RaisesValueError(form)
                /\ Refuse(Reply(400, "Invalid icon_sequence format. Use comma-separated integers."))
             \/ /\ ClassRow(class_id).teacher_id = teacher_id
                /\ form # NoForm
                /\ ~RaisesValueError(form)
                /\ Len(ParseForm(form)) # SequenceLength
                /\ Refuse(Reply(400, "Icon sequence must contain exactly 5 icons"))
             \/ /\ ClassRow(class_id).teacher_id = teacher_id
                /\ form # NoForm
                /\ ~RaisesValueError(form)
                /\ Len(ParseForm(form)) = SequenceLength
                /\ Insert(ParseForm(form), FALSE)
                /\ UNCHANGED password_icons
             \/ /\ ClassRow(class_id).teacher_id = teacher_id
                /\ form = NoForm
                /\ \E g \in generate_student_icon_sequence(school_id, NoStudent) :
                      /\ password_icons' = [password_icons EXCEPT ![school_id] = g.password_icons]
                      /\ IF g.sequence = None
                           THEN /\ last' = AddStudentDone(school_id, TRUE, <<>>,
                                     Reply(500, "Failed to generate unique icon sequence"))
                                /\ UNCHANGED students
                           ELSE Insert(g.sequence, TRUE)

TeacherAddStudent == TeacherAddStudentWith({NoForm} \cup FormSequences)

\* add_student called without an icon_sequence field
AutoAddStudent == TeacherAddStudentWith({NoForm})

(***************************************************************************)
(* app/routers/teachers.py reset_student_auth                              *)
(***************************************************************************)
\* what the handler leaves in `last`: the student, the sequence stored before, the
\* used_sequences generation excluded, the sequence stored now
ResetDone(school_id, student_id, previous, used_sequences, icon_sequence, response) ==
    [op |-> "reset_student_auth", school_id |-> school_id, student_id |-> student_id,
     previous |-> previous, used_sequences |-> used_sequences,
     icon_sequence |-> icon_sequence, response |-> response]

UpdateStudentAuth_Mutant(student_id, new_sequence) ==
    [j \in DOMAIN students |->
        [students[j] EXCEPT !.icon_sequence = Stored(new_sequence),
                            !.registration_status = "pending"]]

\* an update that a uniqueness constraint on (school, sequence) would refuse
UpdateStudentAuth_Unique(student_id, new_sequence) ==
    IF \E j, k \in DOMAIN students :
          /\ students[j].id = student_id
          /\ students[k].id # student_id
          /\ ClassRow(students[k].class_id).school_id
                = ClassRow(students[j].class_id).school_id
          /\ students[k].icon_sequence = Stored(new_sequence)
      THEN students
      ELSE [j \in DOMAIN students |->
              IF students[j].id = student_id
                THEN [students[j] EXCEPT !.icon_sequence = Stored(new_sequence),
                                         !.registration_status = "pending"]
                ELSE students[j]]

\* table("students").update({icon_sequence, registration_status: "pending"})
\*     .eq("id", student_id)
UpdateStudentAuth(student_id, new_sequence) ==
    [j \in DOMAIN students |->
        IF students[j].id = student_id
          THEN [students[j] EXCEPT !.icon_sequence = Stored(new_sequence),
                                   !.registration_status = "pending"]
          ELSE students[j]]

ResetStudentAuth ==
    \E teacher_id \in Teachers, i \in DOMAIN students :
      LET student_id == students[i].id
          class_info == ClassRow(students[i].class_id)
          school_id == class_info.school_id
      IN  /\ UNCHANGED <<requests, accounts, user_roles, school_admin_invitations, now>>
          /\ \/ /\ class_info.teacher_id # teacher_id
                /\ last' = ResetDone(school_id, student_id, students[i].icon_sequence,
                                     {}, NoSequence, Reply(403, "Not authorized"))
                /\ UNCHANGED <<password_icons, students>>
             \/ /\ class_info.teacher_id = teacher_id
                /\ \E g \in generate_student_icon_sequence(school_id, student_id) :
                      /\ password_icons' = [password_icons EXCEPT ![school_id] = g.password_icons]
                      /\ IF g.sequence = None
                           THEN /\ last' = ResetDone(school_id, student_id,
                                     students[i].icon_sequence, g.used_sequences,
                                     NoSequence,
                                     Reply(500, "Failed to generate new icon sequence"))
                                /\ UNCHANGED students
                           ELSE /\ students' = UpdateStudentAuth(student_id, g.sequence)
                                /\ last' = ResetDone(school_id, student_id,
                                       students[i].icon_sequence, g.used_sequences,
                                       Stored(g.sequence),
                                       Reply(200, "Student authentication reset"))

(***************************************************************************)
(* app/routers/schools.py add_student                                      *)
(***************************************************************************)
SchoolAddStudent ==
    \E uid \in Users, school_id \in Schools, class_id \in ClassIds,
       form \in {NoForm} \cup FormSequences :
      LET gate == role_checker(uid, {SCHOOL_ADMIN}, NULL)
          Refuse(response) ==
              /\ last' = AddStudentDone(school_id, FALSE, <<>>, response)
              /\ UNCHANGED students
          Insert(icon_sequence) ==
              LET row == StudentRow(NewStudentId, class_id, icon_sequence, "pending")
              IN  /\ students' = Append(students, row)
                  /\ last' = AddStudentDone(school_id, FALSE, <<row>>,
                                            Reply(200, "Student added"))
      IN  /\ Len(students) < MaxStudents
          /\ UNCHANGED <<requests, accounts, user_roles, school_admin_invitations, now, password_icons>>
          /\ \/ /\ gate.status # 200
                /\ Refuse(gate)
             \/ /\ gate.status = 200
                /\ ~check_school_access(uid, school_id)
                /\ Refuse(Reply(403, "Access denied"))
             \* .single() on no row: an empty response (404) or an APIError (500)
             \/ /\ gate.status = 200
                /\ check_school_access(uid, school_id)
                /\ ClassRow(class_id).school_id # school_id
                /\ \/ Refuse(Reply(404, "Class not found"))
                   \/ Refuse(ServerError)
             \/ /\ gate.status = 200
                /\ check_school_access(uid, school_id)
                /\ ClassRow(class_id).school_id = school_id
                /\ form # NoForm
                /\ RaisesValueError(form)
                /\ Refuse(Reply(400, "Invalid icon_sequence format. Use comma-separated integers."))
             \/ /\ gate.status = 200
                /\ check_school_access(uid, school_id)
                /\ ClassRow(class_id).school_id = school_id
                /\ form # NoForm
                /\ ~RaisesValueError(form)
                /\ Insert(Stored(ParseForm(form)))
             \/ /\ gate.status = 200
                /\ check_school_access(uid, school_id)
                /\ ClassRow(class_id).school_id = school_id
                /\ form = NoForm
                /\ Insert(NoSequence)

\* one school admin of each school and no student yet
InitIcons ==
    /\ user_roles = {GrantRow("u1", SCHOOL_ADMIN, "A", TRUE, NoTime),
                     GrantRow("u2", SCHOOL_ADMIN, "B", TRUE, NoTime)}
    /\ school_admin_invitations = {}
    /\ now = 0
    /\ password_icons = [s \in Schools |-> <<>>]
    /\ students = <<>>
    /\ teacher_schools = <<>>
    /\ teachers = {}
    /\ users = {UserRow(uid) : uid \in Users}
    /\ auth_users = Users
    /\ requests = NoRequests
    /\ last = Idle

NextIcons == SigninStudent \/ TeacherAddStudent \/ ResetStudentAuth \/ SchoolAddStudent

SpecIcons == InitIcons /\ [][NextIcons]_vars

(***************************************************************************)
(* app/routers/schools.py update_student and delete_student                *)
(***************************************************************************)
\* an icon_sequence field sent empty: "".split(',') is ['']
EmptyForm == <<"">>
UpdateForms == {NoForm, EmptyForm, <<"5", "4", "3", "2", "1">>, <<"1", "x", "3", "4", "5">>}
\* an absent class_id field
NoClass == ""
\* the student_id path parameter: the ids of the rows at start, and one more
PathStudentIds == 1..3

\* table("students").select("class_id").eq("id", student_id).single()
StudentCheck(student_id) == {i \in DOMAIN students : students[i].id = student_id}

\* `other`: whether a name or is_active field came with the request
SchoolUpdateStudent ==
    \E uid \in Users, school_id \in Schools, student_id \in PathStudentIds,
       class_id \in {NoClass} \cup ClassIds, form \in UpdateForms,
       other \in BOOLEAN, strict \in BOOLEAN :
      LET gate == role_checker(uid, {SCHOOL_ADMIN}, NULL)
          student_check == StudentCheck(student_id)
          Refuse(response) ==
              /\ last' = [op |-> "update_student", user |-> uid, school_id |-> school_id,
                          student_id |-> student_id, response |-> response]
              /\ UNCHANGED students
          \* .single() on no row: an empty response (404) or an APIError (500)
          Missing(detail) == Refuse(IF strict THEN ServerError ELSE Reply(404, detail))
          updated(row) ==
              [row EXCEPT
                 !.class_id = IF class_id # NoClass THEN class_id ELSE row.class_id,
                 !.icon_sequence = IF form = NoForm THEN row.icon_sequence
                                   ELSE IF form = EmptyForm THEN Stored(<<>>)
                                   ELSE Stored(ParseForm(form))]
      IN  /\ UNCHANGED <<requests, accounts, user_roles, school_admin_invitations, now, password_icons>>
          /\ IF gate.status # 200 THEN Refuse(gate)
             ELSE IF ~check_school_access(uid, school_id)
               THEN Refuse(Reply(403, "Access denied"))
             ELSE IF student_check = {} THEN Missing("Student not found")
             ELSE IF class_id # NoClass /\ ClassRow(class_id).school_id # school_id
               THEN Missing("Class not found")
             ELSE IF form \notin {NoForm, EmptyForm} /\ RaisesValueError(form)
               THEN Refuse(Reply(400, "Invalid icon_sequence format. Use comma-separated integers."))
             ELSE IF class_id = NoClass /\ form = NoForm /\ ~other
               THEN Refuse(Reply(400, "No fields to update"))
             ELSE /\ students' = [i \in DOMAIN students |->
                                     IF students[i].id = student_id
                                       THEN updated(students[i]) ELSE students[i]]
                  /\ last' = [op |-> "update_student", user |-> uid,
                              school_id |-> school_id, student_id |-> student_id,
                              response |-> Reply(200, "Student updated")]

SchoolDeleteStudent ==
    \E uid \in Users, school_id \in Schools, student_id \in PathStudentIds,
       strict \in BOOLEAN :
      LET gate == role_checker(uid, {SCHOOL_ADMIN}, NULL)
          Keep(row) == row.id # student_id
          Done(response) ==
              last' = [op |-> "delete_student", user |-> uid, school_id |-> school_id,
                       student_id |-> student_id, response |-> response]
      IN  /\ UNCHANGED <<requests, accounts, user_roles, school_admin_invitations, now, password_icons>>
          /\ IF gate.status # 200 THEN Done(gate) /\ UNCHANGED students
             ELSE IF ~check_school_access(uid, school_id)
               THEN Done(Reply(403, "Access denied")) /\ UNCHANGED students
             ELSE IF StudentCheck(student_id) = {}
               THEN /\ Done(IF strict THEN ServerError ELSE Reply(404, "Student not found"))
                    /\ UNCHANGED students
             ELSE /\ students' = SelectSeq(students, Keep)
                  /\ Done(Reply(200, "Student deleted"))

\* one school admin and one registered student of each school
InitTenant ==
    /\ user_roles = {GrantRow("u1", SCHOOL_ADMIN, "A", TRUE, NoTime),
                     GrantRow("u2", SCHOOL_ADMIN, "B", TRUE, NoTime)}
    /\ school_admin_invitations = {}
    /\ now = 0
    /\ password_icons = [s \in Schools |-> <<>>]
    /\ students = <<StudentRow(1, "c1", Stored(<<1, 2, 3, 4, 5>>), "registered"),
                    StudentRow(2, "c2", Stored(<<1, 2, 3, 4, 5>>), "registered")>>
    /\ teacher_schools = <<>>
    /\ teachers = {}
    /\ users = {UserRow(uid) : uid \in Users}
    /\ auth_users = Users
    /\ requests = NoRequests
    /\ last = Idle

NextTenant == SchoolUpdateStudent \/ SchoolDeleteStudent

SpecTenant == InitTenant /\ [][NextTenant]_vars

(***************************************************************************)
(* app/routers/auth.py get_school_password_icons and get_schools           *)
(***************************************************************************)
PaletteReply(status, detail, icons) ==
    [status |-> status, detail |-> detail, password_icons |-> icons]

GetSchoolPasswordIcons ==
    \E school_id \in SigninSchools :
      /\ UNCHANGED <<requests, accounts, user_roles, school_admin_invitations, now, students>>
      /\ \/ /\ school_id \notin Schools
            \* .single() on no row: an empty response (404) or an APIError (500)
            /\ \E response \in {PaletteReply(404, "School not found", <<>>),
                                PaletteReply(500, "Internal Server Error", <<>>)} :
                  last' = [op |-> "get_school_password_icons", school_id |-> school_id,
                           response |-> response]
            /\ UNCHANGED password_icons
         \/ /\ school_id \in Schools
            /\ \E password_icon_ids \in
                    (IF PaletteMissing(password_icons[school_id])
                       THEN generate_school_password_icons
                       ELSE {password_icons[school_id]}) :
                  /\ password_icons' =
                        [password_icons EXCEPT ![school_id] = password_icon_ids]
                  /\ last' = [op |-> "get_school_password_icons",
                              school_id |-> school_id,
                              response |-> PaletteReply(200, "ok", password_icon_ids)]

\* the loop over schools.data: each school without a palette gets one, and saves it
GetSchools ==
    \E result \in [Schools -> generate_school_password_icons
                                \cup {password_icons[s] : s \in Schools}] :
      /\ \A s \in Schools :
            IF PaletteMissing(password_icons[s])
              THEN result[s] \in generate_school_password_icons
              ELSE result[s] = password_icons[s]
      /\ password_icons' = result
      /\ last' = [op |-> "get_schools", response |-> [status |-> 200, schools |-> result]]
      /\ UNCHANGED <<requests, accounts, user_roles, school_admin_invitations, now, students>>

\* fetches of the palette, and provisioning of students with generated sequences
NextPalette == GetSchoolPasswordIcons \/ GetSchools \/ AutoAddStudent \/ ResetStudentAuth

SpecPalette == InitIcons /\ [][NextPalette]_vars

\* successive add-student calls with generated sequences, and nothing else
NextAutoAdd == AutoAddStudent

SpecAutoAdd == InitIcons /\ [][NextAutoAdd]_vars

(***************************************************************************)
(* The same handlers in two server processes.  Each database call          *)
(* (.execute()) is one step; between its calls a process keeps the         *)
(* palette it read or generated, the used_sequences it read and the        *)
(* sequence it drew.  The callers are the teachers of the classes.         *)
(***************************************************************************)
tables == <<user_roles, school_admin_invitations, now, accounts>>

\* the requests are for one school, whose students table holds at most this many rows
MaxRaceStudents == 2
RaceSchools == {"A"}
RaceClassIds == UNION {ClassIdsOfSchool(school_id) : school_id \in RaceSchools}

Busy(op) == {w \in Workers : requests[w].pc # "idle" /\ requests[w].op = op}

Begin(w, request) ==
    /\ requests[w].pc = "idle"
    /\ requests' = [requests EXCEPT ![w] = request]
    /\ UNCHANGED <<tables, password_icons, students, last>>

\* teachers.py add_student without icon_sequence, by the teacher of the class
BeginAddStudent ==
    \E w \in Workers, class_id \in RaceClassIds :
        /\ Len(students) + Cardinality(Busy("add_student")) < MaxRaceStudents
        /\ Begin(w, [pc |-> "read_school", op |-> "add_student", class_id |-> class_id,
                     school_id |-> ClassRow(class_id).school_id, student_id |-> NoStudent])

\* teachers.py reset_student_auth, by the teacher of the student's class
BeginResetStudentAuth ==
    \E w \in Workers, i \in DOMAIN students :
        Begin(w, [pc |-> "read_school", op |-> "reset_student_auth",
                  class_id |-> students[i].class_id,
                  school_id |-> ClassRow(students[i].class_id).school_id,
                  student_id |-> students[i].id])

\* auth.py get_school_password_icons of a school that exists
BeginGetSchoolPasswordIcons ==
    \E w \in Workers, school_id \in RaceSchools :
        /\ school_id \in Schools
        /\ Begin(w, [pc |-> "read_school", op |-> "get_school_password_icons",
                     school_id |-> school_id])

\* where a request goes on once it holds a palette
AfterPalette(request) ==
    IF request.op = "get_school_password_icons" THEN "reply" ELSE "read_used"

\* the request at its next call, holding `value` under `field`
Holding(request, pc, field, value) ==
    [f \in DOMAIN request \cup {field} |->
        IF f = "pc" THEN pc ELSE IF f = field THEN value ELSE request[f]]

\* table("schools").select("password_icons").eq("id", school_id).single().execute()
ReadSchool ==
    \E w \in Workers :
        LET request == requests[w]
            stored == password_icons[request.school_id]
        IN  /\ request.pc = "read_school"
            /\ requests' = [requests EXCEPT ![w] =
                   IF PaletteMissing(stored)
                     THEN [request EXCEPT !.pc = "save_palette"]
                     ELSE Holding(request, AfterPalette(request), "password_icons", stored)]
            /\ UNCHANGED <<tables, password_icons, students, last>>

\* password_icons = generate_school_password_icons();
\* table("schools").update({"password_icons": password_icons}).eq("id", school_id).execute()
SavePalette ==
    \E w \in Workers, icons \in generate_school_password_icons :
        LET request == requests[w]
        IN  /\ request.pc = "save_palette"
            /\ password_icons' = [password_icons EXCEPT ![request.school_id] = icons]
            /\ requests' = [requests EXCEPT ![w] =
                   Holding(request, AfterPalette(request), "password_icons", icons)]
            /\ UNCHANGED <<tables, students, last>>

\* get_used_sequences_for_school(...) and, on what it read,
\* generate_unique_icon_sequence(password_icons, used_sequences); the handler keeps
\* the sequence (`unused`: whether it was outside the used_sequences read)
ReadUsedSequences ==
    \E w \in Workers :
        LET request == requests[w]
            used_sequences ==
                get_used_sequences_for_school(request.school_id, request.student_id)
        IN  /\ request.pc = "read_used"
            /\ \E sequence \in
                     generate_unique_icon_sequence(request.password_icons, used_sequences) :
                  requests' = [requests EXCEPT ![w] =
                     [pc |-> "write", op |-> request.op, class_id |-> request.class_id,
                      school_id |-> request.school_id, student_id |-> request.student_id,
                      sequence |-> sequence, unused |-> sequence \notin used_sequences]]
            /\ UNCHANGED <<tables, password_icons, students, last>>

\* what a process leaves in `last` when its request is served
Served(w, response) ==
    [op |-> requests[w].op, request |-> requests[w], response |-> response]

\* table("students").insert(student_data).execute(), or
\* table("students").update({...}).eq("id", student_id).execute()
WriteStudent ==
    \E w \in Workers :
        LET request == requests[w]
        IN  /\ request.pc = "write"
            /\ IF request.sequence = None
                  THEN /\ last' = Served(w, Reply(500, "Failed to generate unique icon sequence"))
                       /\ UNCHANGED students
                ELSE IF request.op = "add_student"
                  THEN /\ students' = Append(students,
                              StudentRow(NewStudentId, request.class_id,
                                         Stored(request.sequence), "pending"))
                       /\ last' = Served(w, Reply(200, "Student added"))
                ELSE /\ students' = UpdateStudentAuth(request.student_id, request.sequence)
                     /\ last' = Served(w, Reply(200, "Student authentication reset"))
            /\ requests' = [requests EXCEPT ![w] = IdleRequest]
            /\ UNCHANGED <<tables, password_icons>>

\* return {"school_id": ..., "password_icons": password_icon_ids, ...}
ReplyPasswordIcons ==
    \E w \in Workers :
        /\ requests[w].pc = "reply"
        /\ last' = Served(w, PaletteReply(200, "ok", requests[w].password_icons))
        /\ requests' = [requests EXCEPT ![w] = IdleRequest]
        /\ UNCHANGED <<tables, password_icons, students>>

NextRace ==
    \/ BeginAddStudent
    \/ BeginResetStudentAuth
    \/ BeginGetSchoolPasswordIcons
    \/ ReadSchool
    \/ SavePalette
    \/ ReadUsedSequences
    \/ WriteStudent
    \/ ReplyPasswordIcons

SpecRace == InitIcons /\ [][NextRace]_vars

(***************************************************************************)
(* The teachers and teacher_schools tables; app/routers/schools.py         *)
(* get_school_teachers                                                     *)
(***************************************************************************)
\* relationships the teacher_schools table holds at start
MaxRelationships == 2

TeacherRecord(id, email, name) == [id |-> id, email |-> email, name |-> name]

\* a teacher_schools row: one teacher at one school, with the state of the invitation
TeacherSchoolRow(id, teacher_id, school_id, invitation_status, invitation_token) ==
    [id |-> id, teacher_id |-> teacher_id, school_id |-> school_id,
     invitation_status |-> invitation_status, invitation_token |-> invitation_token,
     invitation_expires_at |-> <<1>>, is_active |-> TRUE]

\* table("teacher_schools").select("*").eq("school_id", school_id)
TeacherSchoolsOf(school_id) ==
    LET Keep(ts) == ts.school_id = school_id
    IN  SelectSeq(teacher_schools, Keep)

\* teachers_map.get(teacher_id): <<record>>, or <<>> for a missing record
TeachersMapGet(teacher_id) ==
    IF \E t \in teachers : t.id = teacher_id
      THEN <<CHOOSE t \in teachers : t.id = teacher_id>>
      ELSE <<>>

MergedTeacher_Mutant(teacher, ts) ==
    [id |-> teacher.id, email |-> teacher.email, name |-> teacher.name,
     teacher_school_id |-> teacher.id,
     invitation_status |-> ts.invitation_status,
     invitation_token |-> ts.invitation_token,
     invitation_expires_at |-> ts.invitation_expires_at,
     is_active |-> ts.is_active]

\* {**teacher, "teacher_school_id": ts.get("id"), "invitation_status": ..., ...}
MergedTeacher(teacher, ts) ==
    [id |-> teacher.id, email |-> teacher.email, name |-> teacher.name,
     teacher_school_id |-> ts.id,
     invitation_status |-> ts.invitation_status,
     invitation_token |-> ts.invitation_token,
     invitation_expires_at |-> ts.invitation_expires_at,
     is_active |-> ts.is_active]

\* the response and the tables read on the way to it
get_school_teachers(school_id) ==
    LET rows == TeacherSchoolsOf(school_id)
        Known(ts) == TeachersMapGet(ts.teacher_id) # <<>>
        kept == SelectSeq(rows, Known)
    IN  IF rows = <<>>
          THEN [reads |-> <<"teacher_schools">>, teachers |-> <<>>]
          ELSE [reads |-> <<"teacher_schools", "teachers">>,
                teachers |-> [i \in DOMAIN kept |->
                                MergedTeacher(TeachersMapGet(kept[i].teacher_id)[1], kept[i])]]

GetSchoolTeachers ==
    \E school_id \in Schools :
        LET done == get_school_teachers(school_id)
        IN  /\ last' = [op |-> "get_school_teachers", school_id |-> school_id,
                        reads |-> done.reads, teachers |-> done.teachers]
            /\ UNCHANGED <<requests, accounts, user_roles, school_admin_invitations, now,
                           password_icons, students>>

\* the teacher records there can be, and the relationship a table may hold at position i
TeacherRecords == {TeacherRecord("t1", "e1", "Aki"), TeacherRecord("t2", "e2", "Ben")}

\* the row's uuid and its secrets.token_urlsafe(32) token: fresh for each row
RelationshipIds == <<"ts1", "ts2", "ts3", "ts4">>
InvitationTokens == <<"tok1", "tok2", "tok3", "tok4">>

RelationshipRows(i) ==
    {TeacherSchoolRow(RelationshipIds[i], teacher_id, school_id, invitation_status,
                      InvitationTokens[i]) :
        teacher_id \in Teachers, school_id \in Schools,
        invitation_status \in {"pending", "accepted"}}

TeacherSchoolTables ==
    UNION {{rows \in [1..n -> UNION {RelationshipRows(i) : i \in 1..n}] :
               \A i \in 1..n : rows[i] \in RelationshipRows(i)}
           : n \in 0..MaxRelationships}

\* any relationships, over any part of the teacher records (a relationship may
\* outlive its teacher record)
InitTeachers ==
    /\ teacher_schools \in TeacherSchoolTables
    /\ teachers \in SUBSET TeacherRecords
    /\ user_roles = {}
    /\ school_admin_invitations = {}
    /\ now = 0
    /\ password_icons = [s \in Schools |-> <<>>]
    /\ students = <<>>
    /\ users = {UserRow(uid) : uid \in Users}
    /\ auth_users = Users
    /\ requests = NoRequests
    /\ last = Idle

NextTeachers == GetSchoolTeachers

SpecTeachers == InitTeachers /\ [][NextTeachers]_vars

(***************************************************************************)
(* Invitations: app/routers/schools.py invite_school_admin                 *)
(***************************************************************************)
\* school_admin_invitations rows the table may hold
MaxInvitations == 2
\* an invitation expires 7 days after it is sent; the clock counts in units of that
\* lifetime
InvitationLifetime == 1

InvitationRowIds == <<"i1", "i2", "i3", "i4">>
AdminInvitationTokens == <<"adm1", "adm2", "adm3", "adm4">>

AdminInvitation(id, school_id, email, name, token, status, expires_at) ==
    [id |-> id, school_id |-> school_id, email |-> email, name |-> name,
     invitation_token |-> token, invitation_status |-> status,
     invitation_expires_at |-> expires_at]

\* a name typed into a form
Names == {"Cal"}
\* an absent or empty name field
NoName == ""

BadRequest(detail) == [status |-> 400, detail |-> detail]
Ok(detail) == [status |-> 200, detail |-> detail]

\* .neq("school_id", school_id): rows of another school (a null school_id never
\* satisfies neq)
OtherSchoolRole_Mutant(uid, sid) == {}

OtherSchoolRole(uid, sid) ==
    {g \in user_roles : g.user_id = uid /\ g.role = SCHOOL_ADMIN /\ g.is_active
                          /\ g.school_id # sid /\ g.school_id # NULL}

\* rows of the users table with this email
UsersByEmail(email) == {u \in users : u.email = email}

\* what the handler leaves in `last`
InviteDone(uid, school_id, email, response) ==
    [op |-> "invite_school_admin", user |-> uid, school_id |-> school_id,
     email |-> email, response |-> response]

\* `strict`: whether maybe_single() answers None for zero rows, so that the
\* unguarded `.data` that follows raises
InviteSchoolAdmin ==
    \E uid \in Users, school_id \in Schools, email \in Emails, name \in Names,
       strict \in BOOLEAN :
      LET gate == role_checker(uid, {SCHOOL_ADMIN}, NULL)
          pending == {i \in school_admin_invitations :
                        /\ i.email = email /\ i.school_id = school_id
                        /\ i.invitation_status = "pending"}
          existing_user == UsersByEmail(email)
          user_id == (CHOOSE u \in existing_user : TRUE).id
          existing_role == SchoolAdminRole(user_id, school_id)
          other_school_role == OtherSchoolRole(user_id, school_id)
          \* the new row's id and token: the first that no stored row carries
          n == CHOOSE k \in 1..MaxInvitations :
                  /\ \A i \in school_admin_invitations : i.id # InvitationRowIds[k]
                  /\ \A j \in 1..(k - 1) :
                        \E i \in school_admin_invitations : i.id = InvitationRowIds[j]
          Refuse(response) ==
              /\ last' = InviteDone(uid, school_id, email, response)
              /\ UNCHANGED school_admin_invitations
          Create ==
              /\ school_admin_invitations' = school_admin_invitations \cup
                    {AdminInvitation(InvitationRowIds[n], school_id, email, name,
                                     AdminInvitationTokens[n], "pending",
                                     <<now + InvitationLifetime>>)}
              /\ last' = InviteDone(uid, school_id, email, Ok("Invitation sent successfully"))
      IN  /\ Cardinality(school_admin_invitations) < MaxInvitations
          /\ UNCHANGED <<requests, accounts, user_roles, now, password_icons, students>>
          /\ IF gate.status # 200 THEN Refuse(gate)
             ELSE IF ~check_school_access(uid, school_id)
               THEN Refuse([status |-> 403, detail |-> "Access denied"])
             ELSE IF \A u \in users : u.id # uid
               THEN Refuse(ServerError)
             ELSE
               \* existing_invitation_result.data[0]: one of the pending rows
               \/ \E i \in pending :
                     /\ now <= i.invitation_expires_at[1]
                     /\ Refuse(BadRequest("An invitation has already been sent to this email. Please wait for it to expire or resend the invitation."))
               \/ /\ pending = {} \/ \E i \in pending : now > i.invitation_expires_at[1]
                  /\ IF existing_user = {}
                       THEN IF strict THEN Refuse(ServerError) ELSE Create
                     ELSE IF existing_role = {} /\ strict
                       THEN Refuse(ServerError)
                     ELSE IF \E g \in existing_role : g.expires_at = NoTime
                       THEN Refuse(BadRequest("User is already a school admin for this school"))
                     \* with an expiry date, the HTTPException raised inside the try is
                     \* swallowed by its bare except
                     ELSE IF Cardinality(other_school_role) > 1
                       THEN Refuse(ServerError)
                     ELSE IF other_school_role # {}
                       THEN Refuse(BadRequest("User is already a school admin for another school"))
                     ELSE IF strict
                       THEN Refuse(ServerError)
                     ELSE Create

(***************************************************************************)
(* app/routers/auth.py: the three accept-invitation handlers               *)
(***************************************************************************)
\* insert(role_data).on_conflict("user_id,role,school_id").update({is_active: True,
\* expires_at: None})
UpsertRoleIn_Mutant(rows, uid, role, sid) ==
    rows \cup {GrantRow(uid, role, sid, TRUE, NoTime)}

UpsertRoleIn(rows, uid, role, sid) ==
    {g \in rows : GrantKey(g) # <<uid, role, sid>>}
        \cup {GrantRow(uid, role, sid, TRUE, NoTime)}

UpsertRole(uid, role, sid) == UpsertRoleIn(user_roles, uid, role, sid)

\* update({"invitation_status": status}).eq("id", invitation["id"])
SetInvitationStatus(id, status) ==
    {IF i.id = id THEN [i EXCEPT !.invitation_status = status] ELSE i :
        i \in school_admin_invitations}

\* ... and update({"name": name}) when a different name was submitted
AcceptInvitation(id, name) ==
    {IF i.id = id
       THEN [i EXCEPT !.invitation_status = "accepted",
                      !.name = IF name # NoName /\ name # i.name THEN name ELSE i.name]
       ELSE i : i \in school_admin_invitations}

\* the password and confirm_password fields of a new account
NewAccountForms == {"ok", "no_confirm", "mismatch", "short"}

FormRefusal(form) ==
    IF form = "no_confirm"
      THEN BadRequest("Password confirmation is required for new accounts")
    ELSE IF form = "mismatch" THEN BadRequest("Passwords do not match")
    ELSE BadRequest("Password must be at least 6 characters")

\* the token query parameter: a token that was issued, or one that never was
SubmittedTokens(issued) == {issued[i] : i \in 1..MaxInvitations} \cup {"none"}

\* what an accept handler leaves in `last`: the token, the account that accepted
\* (NULL when none did), the role and school of the invitation
AcceptDone(op, token, uid, role, school_id, response) ==
    [op |-> op, token |-> token, user |-> uid, role |-> role, school_id |-> school_id,
     response |-> response]

InvalidToken(strict) ==
    IF strict THEN ServerError
    ELSE [status |-> 404, detail |-> "Invalid or expired invitation token"]

AcceptSchoolAdminInvitation ==
    \E token \in SubmittedTokens(AdminInvitationTokens), password_ok \in BOOLEAN,
       form \in NewAccountForms, name \in {NoName} \cup Names, strict \in BOOLEAN :
      LET found == {i \in school_admin_invitations :
                      i.invitation_token = token /\ i.invitation_status = "pending"}
          invitation == CHOOSE i \in found : TRUE
          email == invitation.email
          school_id == invitation.school_id
          user_id == UserOfEmail(email)
          existing_role == SchoolAdminRole(user_id, school_id)
          Done(uid, sid, response) ==
              last' = AcceptDone("accept_school_admin_invitation", token, uid,
                                 SCHOOL_ADMIN, sid, response)
      IN  /\ UNCHANGED <<requests, teacher_schools, teachers, now, password_icons, students>>
          /\ IF found = {}
               THEN /\ Done(NULL, NULL, InvalidToken(strict))
                    /\ UNCHANGED <<user_roles, school_admin_invitations, users, auth_users>>
             ELSE IF now > invitation.invitation_expires_at[1]
               THEN /\ school_admin_invitations' = SetInvitationStatus(invitation.id, "expired")
                    /\ Done(NULL, school_id, BadRequest("Invitation has expired"))
                    /\ UNCHANGED <<user_roles, users, auth_users>>
             ELSE IF UsersByEmail(email) # {}
               THEN \* sign_in_with_password raises, or existing_role.data raises on None
                    IF ~password_ok \/ (existing_role = {} /\ strict)
                      THEN /\ Done(NULL, school_id,
                                   [status |-> 401,
                                    detail |-> "Sign in failed. Please check your password."])
                           /\ UNCHANGED <<user_roles, school_admin_invitations, users,
                                          auth_users>>
                    ELSE IF AnyNotExpired(existing_role, now)
                      THEN /\ school_admin_invitations' =
                                 SetInvitationStatus(invitation.id, "accepted")
                           /\ Done(user_id, school_id, Ok("You are already a school admin for this school. Invitation accepted."))
                           /\ UNCHANGED <<user_roles, users, auth_users>>
                    ELSE /\ user_roles' = UpsertRole(user_id, SCHOOL_ADMIN, school_id)
                         /\ school_admin_invitations' = AcceptInvitation(invitation.id, name)
                         /\ Done(user_id, school_id, Ok("Invitation accepted successfully. You are now signed in."))
                         /\ UNCHANGED <<users, auth_users>>
             ELSE IF UsersByEmail(email) = {} /\ strict
               THEN /\ Done(NULL, school_id, ServerError)
                    /\ UNCHANGED <<user_roles, school_admin_invitations, users, auth_users>>
             ELSE IF form # "ok"
               THEN /\ Done(NULL, school_id, FormRefusal(form))
                    /\ UNCHANGED <<user_roles, school_admin_invitations, users, auth_users>>
             ELSE IF user_id \notin auth_users
               THEN \* sign_up creates the account
                    /\ auth_users' = auth_users \cup {user_id}
                    /\ users' = users \cup {UserRow(user_id)}
                    /\ user_roles' = UpsertRole(user_id, SCHOOL_ADMIN, school_id)
                    /\ school_admin_invitations' = AcceptInvitation(invitation.id, name)
                    /\ Done(user_id, school_id, Ok("Account created and invitation accepted successfully"))
             \* sign_up raises "already registered": sign in with the password instead
             ELSE IF password_ok
               THEN /\ user_roles' = UpsertRole(user_id, SCHOOL_ADMIN, school_id)
                    /\ school_admin_invitations' =
                          SetInvitationStatus(invitation.id, "accepted")
                    /\ Done(user_id, school_id, Ok("Account already exists. Signed in successfully."))
                    /\ UNCHANGED <<users, auth_users>>
             ELSE /\ Done(NULL, school_id, BadRequest("Account exists but password is incorrect"))
                  /\ UNCHANGED <<user_roles, school_admin_invitations, users, auth_users>>

\* the caller is signed in (get_current_user)
AcceptSchoolAdminInvitationAuthenticated ==
    \E token \in SubmittedTokens(AdminInvitationTokens), uid \in auth_users,
       strict \in BOOLEAN :
      LET found == {i \in school_admin_invitations :
                      i.invitation_token = token /\ i.invitation_status = "pending"}
          invitation == CHOOSE i \in found : TRUE
          school_id == invitation.school_id
          existing_role == SchoolAdminRole(uid, school_id)
          Done(who, sid, response) ==
              last' = AcceptDone("accept_school_admin_invitation_authenticated", token,
                                 who, SCHOOL_ADMIN, sid, response)
      IN  /\ UNCHANGED <<requests, accounts, now, password_icons, students>>
          /\ IF found = {}
               THEN /\ Done(NULL, NULL, InvalidToken(strict))
                    /\ UNCHANGED <<user_roles, school_admin_invitations>>
             ELSE IF EmailOf(uid) # invitation.email
               THEN /\ Done(NULL, school_id,
                            [status |-> 403,
                             detail |-> "This invitation is for a different email address"])
                    /\ UNCHANGED <<user_roles, school_admin_invitations>>
             ELSE IF now > invitation.invitation_expires_at[1]
               THEN /\ school_admin_invitations' = SetInvitationStatus(invitation.id, "expired")
                    /\ Done(NULL, school_id, BadRequest("Invitation has expired"))
                    /\ UNCHANGED user_roles
             ELSE IF AnyNotExpired(existing_role, now)
               THEN /\ school_admin_invitations' =
                          SetInvitationStatus(invitation.id, "accepted")
                    /\ Done(uid, school_id, Ok("You are already a school admin for this school. Invitation accepted."))
                    /\ UNCHANGED user_roles
             ELSE /\ user_roles' = UpsertRole(uid, SCHOOL_ADMIN, school_id)
                  /\ school_admin_invitations' =
                        SetInvitationStatus(invitation.id, "accepted")
                  /\ Done(uid, school_id, Ok("Invitation accepted successfully"))

\* update({"invitation_status": "accepted"}).eq("teacher_id", ...).eq("school_id", ...)
AcceptRelationship(teacher_id, school_id) ==
    [i \in DOMAIN teacher_schools |->
        IF teacher_schools[i].teacher_id = teacher_id
           /\ teacher_schools[i].school_id = school_id
          THEN [teacher_schools[i] EXCEPT !.invitation_status = "accepted"]
          ELSE teacher_schools[i]]

\* table("teachers").update({"name": name}).eq("id", teacher_id)
RenameTeacher(teacher_id, name) ==
    {IF t.id = teacher_id THEN [t EXCEPT !.name = name] ELSE t : t \in teachers}

\* the tokens a visitor may present: the ones first mailed, the ones mailed since
TeacherTokens ==
    SubmittedTokens(InvitationTokens)
      \cup {teacher_schools[i].invitation_token : i \in DOMAIN teacher_schools}

\* datetime.utcnow() > expires_at, for a row that has an expiry date
InvitationExpired(teacher_school) ==
    /\ teacher_school.invitation_expires_at # NoTime
    /\ now > teacher_school.invitation_expires_at[1]

AlreadyAccepted_Mutant(teacher_school) == FALSE

\* teacher_school.get("invitation_status") == "accepted"
AlreadyAccepted(teacher_school) == teacher_school.invitation_status = "accepted"

AcceptTeacherInvitation ==
    \E token \in TeacherTokens, password_ok \in BOOLEAN,
       form \in NewAccountForms, name \in {NoName} \cup Names, strict \in BOOLEAN :
      LET found == {i \in DOMAIN teacher_schools :
                      teacher_schools[i].invitation_token = token}
          teacher_school == teacher_schools[CHOOSE i \in found : TRUE]
          joined == TeachersMapGet(teacher_school.teacher_id)
          teacher == joined[1]
          teacher_id == teacher.id
          school_id == teacher_school.school_id
          user_id == UserOfEmail(teacher.email)
          Done(uid, sid, response) ==
              last' = AcceptDone("accept_teacher_invitation", token, uid, TEACHER, sid,
                                 response)
          Refuse(sid, response) ==
              /\ Done(NULL, sid, response)
              /\ UNCHANGED <<user_roles, teacher_schools, teachers, users, auth_users>>
      IN  /\ UNCHANGED <<requests, school_admin_invitations, now, password_icons, students>>
          /\ IF found = {}
               THEN Refuse(NULL, IF strict THEN ServerError
                                 ELSE [status |-> 404, detail |-> "Invalid invitation token"])
             \* the embedded teachers(*) is null: teacher.get raises
             ELSE IF joined = <<>>
               THEN Refuse(school_id, ServerError)
             ELSE IF InvitationExpired(teacher_school)
               THEN Refuse(school_id, BadRequest("Invitation has expired"))
             ELSE IF AlreadyAccepted(teacher_school)
               THEN Refuse(school_id, BadRequest("Invitation has already been accepted"))
             ELSE IF UsersByEmail(teacher.email) # {}
               THEN IF ~password_ok
                      THEN Refuse(school_id,
                                  [status |-> 401,
                                   detail |-> "Sign in failed. Please check your password."])
                    ELSE /\ teacher_schools' = AcceptRelationship(teacher_id, school_id)
                         /\ teachers' = IF name # NoName /\ name # teacher.name
                                          THEN RenameTeacher(teacher_id, name)
                                          ELSE teachers
                         /\ Done(user_id, school_id, Ok("Invitation accepted successfully. You are now signed in."))
                         /\ UNCHANGED <<user_roles, users, auth_users>>
             ELSE IF strict
               THEN Refuse(school_id, ServerError)
             ELSE IF form # "ok"
               THEN Refuse(school_id, FormRefusal(form))
             ELSE IF user_id \notin auth_users
               THEN /\ auth_users' = auth_users \cup {user_id}
                    /\ users' = users \cup {UserRow(user_id)}
                    /\ user_roles' = UpsertRole(user_id, TEACHER, school_id)
                    /\ teacher_schools' = AcceptRelationship(teacher_id, school_id)
                    /\ teachers' = IF name # NoName /\ name # teacher.name
                                     THEN RenameTeacher(teacher_id, name)
                                     ELSE teachers
                    /\ Done(user_id, school_id, Ok("Account created and invitation accepted successfully"))
             \* sign_up raises "already registered": sign in with the password instead
             ELSE IF password_ok
               THEN /\ teacher_schools' = AcceptRelationship(teacher_id, school_id)
                    /\ teachers' = IF name # NoName
                                     THEN RenameTeacher(teacher_id, name)
                                     ELSE teachers
                    /\ Done(user_id, school_id, Ok("Account already exists. Signed in successfully."))
                    /\ UNCHANGED <<user_roles, users, auth_users>>
             ELSE Refuse(school_id, BadRequest("Account exists but password is incorrect"))

(***************************************************************************)
(* Invitations are sent and accepted while the clock runs.  At start u1 is *)
(* school admin of A and platform admin, teacher t1 (the address of u1) is *)
(* invited to B and teacher t2 (the address of u2) to A; u2 may have no    *)
(* account, an account without users row, or both.                         *)
(***************************************************************************)
InitInvite ==
    /\ user_roles = {GrantRow("u1", SCHOOL_ADMIN, "A", TRUE, NoTime),
                     GrantRow("u1", PLATFORM_ADMIN, NULL, TRUE, NoTime)}
    /\ school_admin_invitations = {}
    /\ now = 0
    /\ password_icons = [s \in Schools |-> <<>>]
    /\ students = <<>>
    /\ teacher_schools =
          <<TeacherSchoolRow(RelationshipIds[1], "t1", "B", "pending", InvitationTokens[1]),
            TeacherSchoolRow(RelationshipIds[2], "t2", "A", "pending", InvitationTokens[2])>>
    /\ teachers = TeacherRecords
    /\ auth_users \in {{"u1"}, {"u1", "u2"}}
    /\ users \in {{UserRow(uid) : uid \in registered} :
                    registered \in {r \in SUBSET auth_users : "u1" \in r}}
    /\ requests = NoRequests
    /\ last = Idle

NextInvite ==
    \/ Tick
    \/ InviteSchoolAdmin
    \/ AcceptSchoolAdminInvitation
    \/ AcceptSchoolAdminInvitationAuthenticated
    \/ AcceptTeacherInvitation

SpecInvite == InitInvite /\ [][NextInvite]_vars

(***************************************************************************)
(* app/routers/schools.py resend_teacher_invitation                        *)
(***************************************************************************)
\* secrets.token_urlsafe(32): a token no row carries and none carried before
FreshTokens ==
    LET carried == {k \in DOMAIN InvitationTokens :
                      \E i \in DOMAIN teacher_schools :
                         teacher_schools[i].invitation_token = InvitationTokens[k]}
    IN  {InvitationTokens[k] : k \in {j \in DOMAIN InvitationTokens :
                                         /\ j - 1 \in carried
                                         /\ \A c \in carried : j > c}}

\* update({invitation_token, invitation_sent_at, invitation_status: "pending",
\*         invitation_expires_at}).eq("teacher_id", ...).eq("school_id", ...)
ResentRelationship(teacher_id, school_id, invitation_token) ==
    [i \in DOMAIN teacher_schools |->
        IF teacher_schools[i].teacher_id = teacher_id
           /\ teacher_schools[i].school_id = school_id
          THEN [teacher_schools[i] EXCEPT
                  !.invitation_token = invitation_token,
                  !.invitation_status = "pending",
                  !.invitation_expires_at = <<now + InvitationLifetime>>]
          ELSE teacher_schools[i]]

ResendTeacherInvitation ==
    \E uid \in Users, school_id \in Schools, teacher_id \in Teachers,
       strict \in BOOLEAN, email_sent \in BOOLEAN :
      LET gate == role_checker(uid, {SCHOOL_ADMIN}, NULL)
          teacher_school_result ==
              {i \in DOMAIN teacher_schools :
                 /\ teacher_schools[i].teacher_id = teacher_id
                 /\ teacher_schools[i].school_id = school_id}
          inviter_data == {u \in users : u.id = uid}
          Resent(token, r) ==
              last' = [op |-> "resend_teacher_invitation", user |-> uid,
                       school_id |-> school_id, teacher_id |-> teacher_id,
                       token |-> token, response |-> r]
      IN  /\ UNCHANGED <<requests, user_roles, school_admin_invitations, now,
                         password_icons, students, teachers, users, auth_users>>
          /\ IF gate.status # 200
               THEN Resent(NULL, gate) /\ UNCHANGED teacher_schools
             ELSE IF ~check_school_access(uid, school_id)
               THEN /\ Resent(NULL, [status |-> 403, detail |-> "Access denied"])
                    /\ UNCHANGED teacher_schools
             \* no row: single() raises, or gives an empty response
             ELSE IF teacher_school_result = {}
               THEN /\ Resent(NULL, IF strict THEN ServerError
                                   ELSE [status |-> 404,
                                         detail |-> "Teacher not found for this school"])
                    /\ UNCHANGED teacher_schools
             \* the caller has no users row: single() raises before the update
             ELSE IF inviter_data = {} /\ strict
               THEN Resent(NULL, ServerError) /\ UNCHANGED teacher_schools
             ELSE \E invitation_token \in FreshTokens :
                    /\ teacher_schools' =
                          ResentRelationship(teacher_id, school_id, invitation_token)
                    /\ Resent(invitation_token,
                             Ok(IF email_sent
                                  THEN "Invitation email resent successfully"
                                  ELSE "Invitation token updated, but email failed to send. Please check your email service configuration."))

(***************************************************************************)
(* Teacher invitations that are accepted, run out and are sent again while *)
(* the clock runs.  At start u1 is school admin of A and teacher t2 (the   *)
(* address of u2) is invited to A; an account may lack its users row.      *)
(***************************************************************************)
InitResend ==
    /\ user_roles = {GrantRow("u1", SCHOOL_ADMIN, "A", TRUE, NoTime)}
    /\ school_admin_invitations = {}
    /\ now = 0
    /\ password_icons = [s \in Schools |-> <<>>]
    /\ students = <<>>
    /\ teacher_schools =
          <<TeacherSchoolRow(RelationshipIds[1], "t2", "A", "pending", InvitationTokens[1])>>
    /\ teachers = TeacherRecords
    /\ auth_users \in {{"u1"}, {"u1", "u2"}}
    /\ users \in {{UserRow(uid) : uid \in registered} : registered \in SUBSET auth_users}
    /\ requests = NoRequests
    /\ last = Idle

NextResend ==
    \/ Tick
    \/ AcceptTeacherInvitation
    \/ ResendTeacherInvitation

SpecResend == InitResend /\ [][NextResend]_vars

(***************************************************************************)
(* Grants that are taken away and given again: school admins are invited,  *)
(* accept, are removed and invited again while the clock runs.  At start   *)
(* u2 may hold a school_admin grant of A with an expiry date.              *)
(***************************************************************************)
PriorGrants == {{}, {GrantRow("u2", SCHOOL_ADMIN, "A", TRUE, <<MaxExpiry>>)}}

InitRegrant ==
    /\ user_roles \in {{GrantRow("u1", SCHOOL_ADMIN, "A", TRUE, NoTime)} \cup prior :
                          prior \in PriorGrants}
    /\ school_admin_invitations = {}
    /\ now = 0
    /\ password_icons = [s \in Schools |-> <<>>]
    /\ students = <<>>
    /\ teacher_schools =
          <<TeacherSchoolRow(RelationshipIds[1], "t2", "A", "pending", InvitationTokens[1])>>
    /\ teachers = TeacherRecords
    /\ auth_users \in {{"u1"}, {"u1", "u2"}}
    /\ users = {UserRow(uid) : uid \in auth_users}
    /\ requests = NoRequests
    /\ last = Idle

NextRegrant ==
    \/ Tick
    \/ InviteSchoolAdmin
    \/ DeleteSchoolAdmin
    \/ AcceptSchoolAdminInvitationAuthenticated
    \/ AcceptTeacherInvitation

SpecRegrant == InitRegrant /\ [][NextRegrant]_vars

(***************************************************************************)
(* Vocabulary of the claims.                                               *)
(***************************************************************************)
\* a grant is active at t: is_active, and no expiry or an expiry after t
ActiveAt(g, t) ==
    g.is_active /\ (IF g.expires_at = NoTime THEN TRUE ELSE g.expires_at[1] > t)

RowsOf(uid) == {g \in user_roles : g.user_id = uid}

\* the rows a require(allowed_roles, school_id) of uid may rest on, whatever their
\* is_active and expires_at
RequireCandidates(uid, allowed_roles, sid) ==
    {g \in RowsOf(uid) :
        \/ PLATFORM_ADMIN \in allowed_roles /\ g.role = PLATFORM_ADMIN /\ g.school_id = NULL
        \/ /\ g.role \in allowed_roles \cap {SCHOOL_ADMIN, TEACHER}
           /\ (sid = NULL \/ g.school_id \in {sid, NULL})}

\* the rows a check_school_access(uid, sid) may rest on
AccessCandidates(uid, sid) ==
    {g \in RowsOf(uid) :
        \/ g.role = PLATFORM_ADMIN /\ g.school_id = NULL
        \/ g.role = SCHOOL_ADMIN /\ g.school_id = sid}

Removed == [status |-> 200, detail |-> "Admin removed from school successfully"]

(***************************************************************************)
(* C1 (as claimed): a user whose only grant is an active, non-expired      *)
(* platform_admin grant with school_id = null passes                       *)
(* require([school_admin], school_id = X) for every school X.              *)
(***************************************************************************)
C1_PlatformAdminUniversality ==
    (/\ last.op = "require_role"
     /\ last.allowed_roles = {SCHOOL_ADMIN}
     /\ last.school_id \in Schools
     /\ \E g \in user_roles :
           /\ RowsOf(last.user) = {g}
           /\ g.role = PLATFORM_ADMIN /\ g.school_id = NULL /\ ActiveAt(g, now))
    => last.response.status = 200

(***************************************************************************)
(* C2: an active, non-expired school_admin grant with school_id = null     *)
(* satisfies every require whose allowed roles include school_admin, for   *)
(* every concrete school_id.                                               *)
(***************************************************************************)
C2_WildcardScope ==
    (/\ last.op = "require_role"
     /\ SCHOOL_ADMIN \in last.allowed_roles
     /\ last.school_id \in Schools
     /\ \E g \in RowsOf(last.user) :
           g.role = SCHOOL_ADMIN /\ g.school_id = NULL /\ ActiveAt(g, now))
    => last.response = Granted

\* the wildcard row is the user's only row and the check names school B
C2_Witness ==
    /\ last.op = "require_role"
    /\ last.allowed_roles = {SCHOOL_ADMIN}
    /\ last.school_id = "B"
    /\ RowsOf(last.user) = {GrantRow(last.user, SCHOOL_ADMIN, NULL, TRUE, NoTime)}
    /\ last.response = Granted

(***************************************************************************)
(* C3: in require_role and in check_school_access a grant counts iff       *)
(* is_active and (expires_at is null or expires_at > now): the check       *)
(* passes iff one of the rows it may rest on is active in that sense, so a *)
(* row that expires exactly now does not count and a row without expiry    *)
(* counts at every instant.                                                *)
(***************************************************************************)
C3_ExpiryBoundary ==
    /\ last.op = "require_role" =>
          (last.response.status = 200 <=>
             \E g \in RequireCandidates(last.user, last.allowed_roles, last.school_id) :
                ActiveAt(g, now))
    /\ last.op = "check_school_access" =>
          (last.response <=>
             \E g \in AccessCandidates(last.user, last.school_id) : ActiveAt(g, now))

\* a check resting on one active row that expires at this very instant is refused
C3_Witness ==
    /\ last.op = "require_role"
    /\ now > 0
    /\ RowsOf(last.user) = {GrantRow(last.user, SCHOOL_ADMIN, "A", TRUE, <<now>>)}
    /\ last.allowed_roles = {SCHOOL_ADMIN}
    /\ last.school_id = "A"
    /\ last.response = Forbidden

(***************************************************************************)
(* C4: once delete_school_admin has set is_active = false on a grant, no   *)
(* active row is left under that key, the very next access check of that   *)
(* admin for that school is refused unless another grant carries it, and   *)
(* in every later state a check passes only on a row that is active then.  *)
(***************************************************************************)
C4_AfterRemoval ==
    /\ (last'.op = "delete_school_admin" /\ last'.response = Removed) =>
          /\ \A g \in user_roles' :
                GrantKey(g) = <<last'.admin_id, SCHOOL_ADMIN, last'.school_id>>
                   => ~g.is_active
          /\ \E g \in user_roles :
                /\ GrantKey(g) = <<last'.admin_id, SCHOOL_ADMIN, last'.school_id>>
                /\ g.is_active
                /\ [g EXCEPT !.is_active = FALSE] \in user_roles'
    /\ (/\ last.op = "delete_school_admin" /\ last.response = Removed
        /\ last'.op = "check_school_access"
        /\ last'.user = last.admin_id /\ last'.school_id = last.school_id
        /\ PlatformAdminCheck(last.admin_id) = {}) => last'.response = FALSE
    /\ (/\ last.op = "delete_school_admin" /\ last.response = Removed
        /\ last'.op = "require_role"
        /\ last'.user = last.admin_id /\ last'.school_id = last.school_id
        /\ last'.allowed_roles = {SCHOOL_ADMIN}
        /\ RowsOf(last.admin_id) \subseteq
              {g \in user_roles : g.role = SCHOOL_ADMIN /\ g.school_id = last.school_id})
          => last'.response = Forbidden

C4_PassNeedsActiveRow ==
    /\ (last.op = "require_role" /\ last.response.status = 200) =>
          \E g \in RequireCandidates(last.user, last.allowed_roles, last.school_id) :
             g.is_active
    /\ (last.op = "check_school_access" /\ last.response) =>
          \E g \in AccessCandidates(last.user, last.school_id) : g.is_active

C4_DeactivatedGrantInert == [][C4_AfterRemoval]_vars /\ []C4_PassNeedsActiveRow

\* the admin's only row was deactivated and the access check is refused
C4_Witness ==
    /\ last.op = "check_school_access"
    /\ RowsOf(last.user) = {GrantRow(last.user, SCHOOL_ADMIN, last.school_id, FALSE, NoTime)}
    /\ last.response = FALSE

(***************************************************************************)
(* Vocabulary of the sign-in and generation claims.                        *)
(***************************************************************************)
Occurrences(seq, v) == Cardinality({i \in DOMAIN seq : seq[i] = v})

IsPermutationOf(p, q) ==
    /\ Len(p) = Len(q)
    /\ \A v \in Range(p) \cup Range(q) : Occurrences(p, v) = Occurrences(q, v)

SchoolOfStudent(st) == (CHOOSE c \in ClassRows : c.id = st.class_id).school_id

\* positions of the students of a school that store exactly this list
Holders(school_id, icon_sequence) ==
    {i \in DOMAIN students :
        /\ SchoolOfStudent(students[i]) = school_id
        /\ students[i].icon_sequence = <<icon_sequence>>}

PositionOfId(student_id) == {i \in DOMAIN students : students[i].id = student_id}

WellFormed(icon_sequence) == Len(icon_sequence) = 5

SigninFailed ==
    last.op = "signin_student" /\ WellFormed(last.icon_sequence) /\ last.response.status # 200

(***************************************************************************)
(* C5: a submitted sequence that is a permutation of a student's stored    *)
(* sequence, but not that sequence, never signs that student in.           *)
(***************************************************************************)
C5_OrderingMatters ==
    last.op = "signin_student" =>
        \A i \in DOMAIN students :
            (/\ students[i].icon_sequence # NoSequence
             /\ students[i].icon_sequence[1] # last.icon_sequence
             /\ IsPermutationOf(students[i].icon_sequence[1], last.icon_sequence))
            => last.response.student_id # students[i].id

\* [5,4,3,2,1] is submitted for the school of a student holding [1,2,3,4,5], and refused
C5_Witness ==
    /\ last.op = "signin_student"
    /\ last.icon_sequence = <<5, 4, 3, 2, 1>>
    /\ Holders(last.school_id, <<1, 2, 3, 4, 5>>) # {}
    /\ last.response = [status |-> 401, detail |-> "Invalid icon sequence", student_id |-> 0]

(***************************************************************************)
(* C6: a sign-in with a 5-element sequence succeeds iff a student of the   *)
(* school stores exactly that sequence; it then returns the first such     *)
(* student in store order, never a student of another school; with no     *)
(* such student it fails with 401.                                         *)
(***************************************************************************)
C6_SigninFindsFirstHolder ==
    (last.op = "signin_student" /\ WellFormed(last.icon_sequence)) =>
        LET holders == Holders(last.school_id, last.icon_sequence)
        IN  /\ last.response.status = 200 <=> holders # {}
            /\ holders # {} =>
                  /\ PositionOfId(last.response.student_id) \subseteq holders
                  /\ \A i \in PositionOfId(last.response.student_id) :
                        \A j \in holders : i <= j
                  /\ PositionOfId(last.response.student_id) # {}
            /\ holders = {} =>
                  last.response.status = 401 /\ last.response.student_id = 0

\* a student of another school stores the same sequence earlier in the table
C6_Witness ==
    /\ last.op = "signin_student"
    /\ last.response.status = 200
    /\ \E i, j \in DOMAIN students :
          /\ i < j
          /\ students[i].icon_sequence = <<last.icon_sequence>>
          /\ SchoolOfStudent(students[i]) # last.school_id
          /\ students[j].id = last.response.student_id

(***************************************************************************)
(* C7: a sign-in whose sequence has not exactly 5 entries is answered 400  *)
(* and reads neither classes nor students, whatever the store holds.       *)
(***************************************************************************)
C7_LengthCheckedFirst ==
    (last.op = "signin_student" /\ ~WellFormed(last.icon_sequence)) =>
        /\ last.response.status = 400
        /\ last.response.detail = "Icon sequence must contain exactly 5 icons"
        /\ last.reads = <<>>

\* the 4-element list submitted is the very list a student of that school stores
C7_Witness ==
    /\ last.op = "signin_student"
    /\ Len(last.icon_sequence) = 4
    /\ Holders(last.school_id, last.icon_sequence) # {}
    /\ last.response.status = 400

GeneratedNow ==
    \/ last.op = "add_student" /\ last.generated /\ last.response.status = 200
    \/ last.op = "reset_student_auth" /\ last.response.status = 200

LastSequence ==
    IF last.op = "add_student" THEN last.inserted[1].icon_sequence[1]
    ELSE last.icon_sequence[1]

C9_PaletteContainment ==
    GeneratedNow =>
        /\ Len(LastSequence) = 5
        /\ \A i, j \in DOMAIN LastSequence : i # j => LastSequence[i] # LastSequence[j]
        /\ Len(password_icons[last.school_id]) = 9
        /\ Range(LastSequence) \subseteq Range(password_icons[last.school_id])

\* a reset whose school's palette does not start at icon 1
C9_Witness ==
    /\ last.op = "reset_student_auth"
    /\ last.response.status = 200
    /\ 1 \notin Range(password_icons[last.school_id])

(***************************************************************************)
(* C10 (as claimed): successive add-student calls with generated sequences *)
(* leave pairwise distinct sequences stored for each school.               *)
(***************************************************************************)
C10_CollisionAvoidance ==
    \A i, j \in DOMAIN students :
        (i # j /\ SchoolOfStudent(students[i]) = SchoolOfStudent(students[j]))
        => students[i].icon_sequence # students[j].icon_sequence

(***************************************************************************)
(* C11: a reset by the class's teacher excludes exactly the 5-element      *)
(* sequences stored by the other students of the school, never the         *)
(* student's own row, and does not fail.                                   *)
(***************************************************************************)
OthersSequences(school_id, student_id) ==
    {students[i].icon_sequence[1] :
        i \in {j \in DOMAIN students :
                  /\ students[j].id # student_id
                  /\ SchoolOfStudent(students[j]) = school_id
                  /\ students[j].icon_sequence # NoSequence
                  /\ Len(students[j].icon_sequence[1]) = 5}}

C12_ResetInvalidatesOld ==
    (last.op = "reset_student_auth" /\ last.response.status = 200) =>
        \A i \in PositionOfId(last.student_id) :
            /\ students[i].icon_sequence = last.icon_sequence
            /\ students[i].icon_sequence # last.previous
            /\ students[i].registration_status = "pending"

(***************************************************************************)
(* C13 (as claimed): every stored icon_sequence is a list of exactly 5     *)
(* icon ids of the student's school's password_icons, and no two students  *)
(* of one school store the same list.                                      *)
(***************************************************************************)
C13_StudentCredentialInvariant ==
    /\ \A i \in DOMAIN students :
          students[i].icon_sequence # NoSequence =>
              /\ Len(students[i].icon_sequence[1]) = 5
              /\ Range(students[i].icon_sequence[1])
                    \subseteq Range(password_icons[SchoolOfStudent(students[i])])
    /\ \A i, j \in DOMAIN students :
          (/\ i # j
           /\ SchoolOfStudent(students[i]) = SchoolOfStudent(students[j])
           /\ students[i].icon_sequence # NoSequence)
          => students[i].icon_sequence # students[j].icon_sequence

(***************************************************************************)
(* C14: a stored palette is 9 distinct ids in 1..48; once a school has     *)
(* one, no fetch (get_school_password_icons, get_schools) and no student   *)
(* provisioning changes it; a fetch returns the stored palette, and a      *)
(* generated sequence is drawn from it.                                    *)
(***************************************************************************)
IsPalette(icons) ==
    /\ Len(icons) = 9
    /\ \A i \in DOMAIN icons : icons[i] \in 1..48
    /\ \A i, j \in DOMAIN icons : i # j => icons[i] # icons[j]

C14_PaletteKept ==
    \A s \in Schools : password_icons[s] # <<>> => password_icons'[s] = password_icons[s]

C14_FetchReturnsStored ==
    /\ \A s \in Schools : password_icons[s] # <<>> => IsPalette(password_icons[s])
    /\ (last.op = "get_school_password_icons" /\ last.response.status = 200) =>
          /\ IsPalette(last.response.password_icons)
          /\ last.response.password_icons = password_icons[last.school_id]
    /\ last.op = "get_schools" =>
          \A s \in Schools : /\ IsPalette(last.response.schools[s])
                             /\ last.response.schools[s] = password_icons[s]
    /\ GeneratedNow =>
          /\ IsPalette(password_icons[last.school_id])
          /\ Range(LastSequence) \subseteq Range(password_icons[last.school_id])

C14_LazyIdempotentPalette == [][C14_PaletteKept]_vars /\ []C14_FetchReturnsStored

\* a fetch returns the palette under which a student of the school was provisioned before
C14_Witness ==
    /\ last.op = "get_school_password_icons"
    /\ last.response.status = 200
    /\ \E i \in DOMAIN students :
          /\ SchoolOfStudent(students[i]) = last.school_id
          /\ Range(students[i].icon_sequence[1]) \subseteq Range(last.response.password_icons)
    /\ 1 \notin Range(last.response.password_icons)

(***************************************************************************)
(* C15 (as claimed): for every non-empty set of acceptable roles, every    *)
(* school_id and every grant state the role check returns the caller or    *)
(* fails with 403 "Insufficient permissions", and it is that 403 when no   *)
(* grant satisfies a branch.                                               *)
(***************************************************************************)
C15_GateOutcome ==
    last.op = "require_role" =>
        /\ last.response \in {Granted, Forbidden}
        /\ (\A g \in RequireCandidates(last.user, last.allowed_roles, last.school_id) :
               ~ActiveAt(g, now))
           => last.response = Forbidden

(***************************************************************************)
(* C16: check_school_access(user, S) is true iff the user holds an active, *)
(* non-expired platform_admin grant with null school_id or an active,      *)
(* non-expired school_admin grant for exactly S; a failed read of the      *)
(* grants gives false.                                                     *)
(***************************************************************************)
C16_SchoolAccess ==
    /\ last.op = "check_school_access" =>
          (last.response = TRUE <=>
             \E g \in user_roles :
                /\ g.user_id = last.user
                /\ g.is_active
                /\ (IF g.expires_at = NoTime THEN TRUE ELSE ~(g.expires_at[1] <= now))
                /\ \/ g.role = PLATFORM_ADMIN /\ g.school_id = NULL
                   \/ g.role = SCHOOL_ADMIN /\ g.school_id = last.school_id)
    /\ last.op = "check_school_access_failed" => last.response = FALSE

\* refused: the user's grants are school_admin of the other school and teacher of this one
C16_Witness ==
    /\ last.op = "check_school_access"
    /\ last.school_id = "A"
    /\ RowsOf(last.user) = {GrantRow(last.user, SCHOOL_ADMIN, "B", TRUE, NoTime),
                            GrantRow(last.user, TEACHER, "A", TRUE, NoTime)}
    /\ last.response = FALSE

ListedRelationships(school_id) ==
    {i \in DOMAIN teacher_schools :
        /\ teacher_schools[i].school_id = school_id
        /\ \E t \in teachers : t.id = teacher_schools[i].teacher_id}

RankAmong(positions, i) == Cardinality({j \in positions : j <= i})

C19_SchoolTeachersListing ==
    last.op = "get_school_teachers" =>
        LET listed == ListedRelationships(last.school_id)
        IN  /\ Len(last.teachers) = Cardinality(listed)
            /\ \A i \in listed :
                  LET entry == last.teachers[RankAmong(listed, i)]
                      ts == teacher_schools[i]
                  IN  /\ entry.teacher_school_id = ts.id
                      /\ entry.invitation_status = ts.invitation_status
                      /\ entry.invitation_token = ts.invitation_token
                      /\ TeacherRecord(entry.id, entry.email, entry.name) \in teachers
                      /\ entry.id = ts.teacher_id
            /\ (\A i \in DOMAIN teacher_schools :
                   teacher_schools[i].school_id # last.school_id)
               => last.teachers = <<>> /\ last.reads = <<"teacher_schools">>

\* of the school's two relationships the first has no teacher record and the second
\* is listed alone
C19_Witness ==
    /\ last.op = "get_school_teachers"
    /\ Len(teacher_schools) = 2
    /\ \A i \in DOMAIN teacher_schools : teacher_schools[i].school_id = last.school_id
    /\ \A t \in teachers : t.id # teacher_schools[1].teacher_id
    /\ Len(last.teachers) = 1
    /\ last.teachers[1].teacher_school_id = teacher_schools[2].id

(***************************************************************************)
(* Vocabulary of the invitation claims.                                    *)
(***************************************************************************)
\* the inviter passes the route's role gate and the school access check
InviterAuthorized(uid, school_id) ==
    /\ \E g \in RequireCandidates(uid, {SCHOOL_ADMIN}, NULL) : ActiveAt(g, now)
    /\ \E g \in AccessCandidates(uid, school_id) : ActiveAt(g, now)

\* the registered user behind an e-mail address, if any
RegisteredIds(email) == {u.id : u \in {r \in users : r.email = email}}

AcceptOps ==
    {"accept_school_admin_invitation", "accept_school_admin_invitation_authenticated",
     "accept_teacher_invitation"}

(***************************************************************************)
(* C17 (as claimed): a user who holds an active school_admin grant for one *)
(* school can be invited as school admin to another school: the invitation *)
(* of that user's address by an authorized inviter, with no invitation     *)
(* pending for it, succeeds.                                               *)
(***************************************************************************)
C17_MultiSchoolInvite ==
    (/\ last.op = "invite_school_admin"
     /\ InviterAuthorized(last.user, last.school_id)
     /\ \E uid \in RegisteredIds(last.email) :
           /\ \E g \in RowsOf(uid) :
                 /\ g.role = SCHOOL_ADMIN /\ g.school_id \in Schools \ {last.school_id}
                 /\ ActiveAt(g, now)
           /\ \A g \in RowsOf(uid) :
                 g.role = SCHOOL_ADMIN => g.school_id # last.school_id
     /\ \A i \in school_admin_invitations :
           (i.email = last.email /\ i.school_id = last.school_id)
           => i.invitation_status # "pending")
    => last.response.status = 200

(***************************************************************************)
(* C17 (amended): invite_school_admin never succeeds for the address of a  *)
(* registered user who has an is_active school_admin row for another       *)
(* school, and then stores no invitation; accepting an invitation leaves   *)
(* the user's rows for other schools as they are, so a user invited to two *)
(* schools before accepting either ends with grants for both.              *)
(***************************************************************************)
C17_InviteRefused ==
    (/\ last'.op = "invite_school_admin"
     /\ last' # last
     /\ \E uid \in RegisteredIds(last'.email) :
           \E g \in RowsOf(uid) :
              /\ g.role = SCHOOL_ADMIN /\ g.is_active
              /\ g.school_id \in Schools \ {last'.school_id})
    => /\ last'.response.status # 200
       /\ school_admin_invitations' = school_admin_invitations

C17_AcceptKeepsOtherSchools ==
    (last'.op \in AcceptOps /\ last'.response.status = 200)
    => \A g \in user_roles :
          GrantKey(g) # <<last'.user, last'.role, last'.school_id>> => g \in user_roles'

C17_MultiSchoolSupport ==
    [][C17_InviteRefused]_vars /\ [][C17_AcceptKeepsOtherSchools]_vars

\* u2, school admin of A by an accepted invitation, is refused for B
C17_Witness ==
    /\ last.op = "invite_school_admin"
    /\ last.school_id = "B"
    /\ last.email = "e2"
    /\ \E i \in school_admin_invitations :
          i.email = "e2" /\ i.school_id = "A" /\ i.invitation_status = "accepted"
    /\ GrantRow("u2", SCHOOL_ADMIN, "A", TRUE, NoTime) \in user_roles
    /\ last.response = BadRequest("User is already a school admin for another school")

\* grants for both schools, each from an accepted invitation
C17_BothSchoolsReached ==
    /\ GrantRow("u2", SCHOOL_ADMIN, "A", TRUE, NoTime) \in user_roles
    /\ GrantRow("u2", SCHOOL_ADMIN, "B", TRUE, NoTime) \in user_roles

(***************************************************************************)
(* C18 (as claimed): after every successful invitation acceptance (teacher *)
(* or school admin, new or existing account, with password or signed in)   *)
(* the accepting user holds an active grant of the invited role for the    *)
(* invitation's school and the invitation is 'accepted'.                   *)
(***************************************************************************)
C18_GrantOnAcceptance ==
    (last.op \in AcceptOps /\ last.response.status = 200) =>
        /\ \E g \in RowsOf(last.user) :
              /\ g.role = last.role
              /\ g.school_id = last.school_id
              /\ ActiveAt(g, now)
        /\ IF last.op = "accept_teacher_invitation"
             THEN \A i \in DOMAIN teacher_schools :
                     teacher_schools[i].invitation_token = last.token
                     => teacher_schools[i].invitation_status = "accepted"
             ELSE \A i \in school_admin_invitations :
                     i.invitation_token = last.token => i.invitation_status = "accepted"

(***************************************************************************)
(* C21: role checks are read-only.  A step that serves require_role or     *)
(* check_school_access, whether it grants, refuses or fails, leaves every  *)
(* user_roles row as it was; a grant whose expires_at has passed keeps     *)
(* is_active = true and its expires_at.                                    *)
(***************************************************************************)
RoleCheckOps == {"require_role", "check_school_access", "check_school_access_failed"}

C21_ChecksReadOnly ==
    [][last'.op \in RoleCheckOps => user_roles' = user_roles]_vars

\* a check was refused on an expired grant, and the grant is still stored active
C21_Witness ==
    /\ last.op = "require_role"
    /\ last.response = Forbidden
    /\ \E g \in RowsOf(last.user) :
          /\ g.is_active
          /\ g.role \in last.allowed_roles
          /\ IF g.expires_at = NoTime THEN FALSE ELSE g.expires_at[1] <= now

(***************************************************************************)
(* C22: the grant upsert is idempotent on (user_id, role, school_id).      *)
(* Granting a key leaves exactly one row for it, active and without        *)
(* expiry, and every row of another key as it was; granting it a second    *)
(* time changes nothing; and after an acceptance that ran the upsert the   *)
(* accepted (user, role, school) has exactly that one row.                 *)
(***************************************************************************)
GrantKeys == Users \X {SCHOOL_ADMIN, TEACHER} \X Schools

\* the answers of an accept handler on the paths that run the upsert
UpsertReplies(op) ==
    IF op = "accept_teacher_invitation"
      THEN {Ok("Account created and invitation accepted successfully")}
    ELSE {Ok("Invitation accepted successfully"),
          Ok("Invitation accepted successfully. You are now signed in."),
          Ok("Account created and invitation accepted successfully"),
          Ok("Account already exists. Signed in successfully.")}

C22_GrantUpsertIdempotent ==
    /\ \A key \in GrantKeys :
          LET once == UpsertRoleIn(user_roles, key[1], key[2], key[3])
          IN  /\ {g \in once : GrantKey(g) = key}
                    = {GrantRow(key[1], key[2], key[3], TRUE, NoTime)}
              /\ {g \in once : GrantKey(g) # key}
                    = {g \in user_roles : GrantKey(g) # key}
              /\ UpsertRoleIn(once, key[1], key[2], key[3]) = once
    /\ (last.op \in AcceptOps /\ last.response \in UpsertReplies(last.op)) =>
          {g \in user_roles : GrantKey(g) = <<last.user, last.role, last.school_id>>}
             = {GrantRow(last.user, last.role, last.school_id, TRUE, NoTime)}

\* u2 accepted, was removed, was invited again and accepted again: two accepted
\* invitations of the address for school A, and one grant row, active, no expiry
C22_Witness ==
    /\ last.op = "accept_school_admin_invitation_authenticated"
    /\ last.user = "u2"
    /\ last.response = Ok("Invitation accepted successfully")
    /\ Cardinality({i \in school_admin_invitations :
                       /\ i.email = EmailOf("u2") /\ i.school_id = "A"
                       /\ i.invitation_status = "accepted"}) = 2
    /\ {g \in user_roles : GrantKey(g) = <<"u2", SCHOOL_ADMIN, "A">>}
          = {GrantRow("u2", SCHOOL_ADMIN, "A", TRUE, NoTime)}

(***************************************************************************)
(* C23 (as claimed): at sign-in a student row whose stored icon_sequence   *)
(* is null or cannot be converted element by element to integers, whether  *)
(* stored as a list or not, is skipped and the scan goes on: the answer is  *)
(* the first row of the school whose converted sequence equals the input,  *)
(* or 401 Invalid icon sequence, and never an error.                       *)
(***************************************************************************)
Convertible(value) ==
    IF value = NoSequence THEN FALSE ELSE ~ConversionRaises(value)

C23_MalformedSkipped ==
    (/\ last.op = "signin_student"
     /\ Len(last.icon_sequence) = SequenceLength
     /\ StudentsOfClasses(ClassIdsOfSchool(last.school_id)) # <<>>) =>
        LET rows == StudentsOfClasses(ClassIdsOfSchool(last.school_id))
            good == {i \in DOMAIN rows :
                        IF Convertible(rows[i].icon_sequence)
                          THEN Converted(rows[i].icon_sequence) = last.icon_sequence
                          ELSE FALSE}
        IN  IF good = {}
              THEN last.response = SigninReply(401, "Invalid icon sequence", NoStudent)
              ELSE \E i \in good :
                      /\ \A j \in good : i <= j
                      /\ last.response = SigninReply(200, "Sign-in successful", rows[i].id)

(***************************************************************************)
(* C24: a reset of one student's authentication leaves the students table  *)
(* as it was except for that student's icon_sequence and                    *)
(* registration_status: no row is added or removed, every other student's  *)
(* row (of the same school or another) is unchanged, and a reset that is   *)
(* refused or fails changes no row.                                        *)
(***************************************************************************)
C24_ResetFrame ==
    [][last'.op = "reset_student_auth" =>
          /\ DOMAIN students' = DOMAIN students
          /\ \A i \in DOMAIN students :
                /\ students'[i].id = students[i].id
                /\ students'[i].class_id = students[i].class_id
                /\ students[i].id # last'.student_id => students'[i] = students[i]
                /\ last'.response.status # 200 => students'[i] = students[i]
      ]_vars

\* a reset stored a new sequence while students of both schools hold sequences
C24_Witness ==
    /\ last.op = "reset_student_auth"
    /\ last.response.status = 200
    /\ last.icon_sequence # last.previous
    /\ \E i \in DOMAIN students :
          /\ students[i].id # last.student_id
          /\ SchoolOfStudent(students[i]) = last.school_id
          /\ students[i].icon_sequence # NoSequence
    /\ \E i \in DOMAIN students :
          /\ SchoolOfStudent(students[i]) # last.school_id
          /\ students[i].icon_sequence # NoSequence

C26_CheckedAgainstSnapshotOnly ==
    [][\A w \in Workers :
          /\ (requests[w].pc = "read_used" /\ requests'[w].pc = "write") =>
                LET used_sequences ==
                        OthersSequences(requests[w].school_id, requests[w].student_id)
                IN  /\ requests'[w].sequence \in Sample(requests[w].password_icons)
                    /\ requests'[w].unused = (requests'[w].sequence \notin used_sequences)
                    /\ Sample(requests[w].password_icons) \cap used_sequences = {}
                          => requests'[w].unused
          /\ (requests[w].pc = "write" /\ requests'[w].pc = "idle") =>
                /\ last'.response.status = 200
                /\ IF requests[w].op = "add_student"
                     THEN /\ Len(students') = Len(students) + 1
                          /\ students'[Len(students')].icon_sequence
                                = Stored(requests[w].sequence)
                          /\ students'[Len(students')].class_id = requests[w].class_id
                     ELSE \A i \in DOMAIN students :
                            students[i].id = requests[w].student_id =>
                               students'[i].icon_sequence = Stored(requests[w].sequence)
      ]_vars

\* a request wrote a sequence that was outside the used_sequences it had read, and
\* another student of the school stores the same sequence
C26_Witness ==
    /\ last.op \in {"add_student", "reset_student_auth"}
    /\ last.response.status = 200
    /\ last.request.unused
    /\ Cardinality(Holders(last.request.school_id, last.request.sequence)) > 1

(***************************************************************************)
(* C29 (as claimed): when requests that need the palette of a school       *)
(* without password_icons interleave, they observe the same 9 ids and the  *)
(* palette stored in the end is the one each of them returned or used:     *)
(* once no request is in flight, the palette last returned is the stored   *)
(* one and every stored sequence of the school lies within it.             *)
(***************************************************************************)
C29_ConcurrentPaletteAgreement ==
    (\A w \in Workers : requests[w].pc = "idle") =>
        /\ last.op = "get_school_password_icons" =>
              last.response.password_icons = password_icons[last.request.school_id]
        /\ \A i \in DOMAIN students :
              students[i].icon_sequence # NoSequence =>
                 Range(students[i].icon_sequence[1])
                    \subseteq Range(password_icons[SchoolOfStudent(students[i])])

(***************************************************************************)
(* C27 (as claimed): tenant isolation of student management.  An update    *)
(* or delete addressed to /{school_id}/students/{student_id} changes or    *)
(* removes a student row only when the class of that row belongs to        *)
(* school_id, so a caller with access to school A only never changes or    *)
(* deletes a student of school B.                                          *)
(***************************************************************************)
C27_TenantIsolation ==
    [][last'.op \in {"update_student", "delete_student"} =>
          \A i \in DOMAIN students :
             (\A j \in DOMAIN students' : students'[j] # students[i]) =>
                ClassRow(students[i].class_id).school_id = last'.school_id
      ]_vars

(***************************************************************************)
(* C28: delete_school_admin never deactivates the caller's own grant.  No  *)
(* call changes a user_roles row of its caller.  A call that passes the    *)
(* role gate and the school access check and names the caller, who holds   *)
(* an active school_admin grant of the school, fails with 400 and changes  *)
(* nothing; one that names another admin with an active grant sets         *)
(* is_active = false on the rows of that (user, school_admin, school) and  *)
(* leaves every other row, the number of rows and the invitations as they  *)
(* were.                                                                   *)
(***************************************************************************)
C28_NoSelfRemoval ==
    [][last'.op = "delete_school_admin" =>
          LET uid == last'.user
              sid == last'.school_id
              admin_id == last'.admin_id
              authorized == /\ role_checker(uid, {SCHOOL_ADMIN}, NULL).status = 200
                            /\ check_school_access(uid, sid)
              target == {g \in user_roles :
                            /\ GrantKey(g) = <<admin_id, SCHOOL_ADMIN, sid>>
                            /\ g.is_active}
          IN  /\ \A g \in user_roles : g.user_id = uid => g \in user_roles'
              /\ (authorized /\ target # {} /\ admin_id = uid) =>
                    /\ last'.response
                          = BadRequest("You cannot remove yourself from the school")
                    /\ UNCHANGED <<user_roles, school_admin_invitations>>
              /\ (authorized /\ target # {} /\ admin_id # uid) =>
                    /\ last'.response = Removed
                    /\ user_roles' = (user_roles \ target)
                          \cup {[g EXCEPT !.is_active = FALSE] : g \in target}
                    /\ Cardinality(user_roles') = Cardinality(user_roles)
                    /\ UNCHANGED school_admin_invitations
      ]_vars

\* an admin asked to be removed, was refused, and still holds the active grant
C28_Witness ==
    /\ last.op = "delete_school_admin"
    /\ last.admin_id = last.user
    /\ last.response = BadRequest("You cannot remove yourself from the school")
    /\ \E g \in user_roles :
          GrantKey(g) = <<last.user, SCHOOL_ADMIN, last.school_id>> /\ g.is_active

\* the rows of teacher_schools that carry the token the last request presented
RowsOfToken(rows, token) == {i \in DOMAIN rows : rows[i].invitation_token = token}

\* C30: accept-invitation succeeds only on an invitation that is not accepted and has
\* not run out, and leaves it accepted; on an accepted or expired invitation it
\* answers 400 and leaves teacher_schools, users and user_roles as they were; an
\* accepted invitation stays as it is until it is resent, and only a resend brings
\* an invitation back to "pending".
C30_AcceptedOncePerResend ==
    [][/\ last'.op = "accept_teacher_invitation"
          => LET presented == RowsOfToken(teacher_schools, last'.token)
             IN  /\ last'.response.status = 200
                      => \E i \in presented :
                            /\ teacher_schools[i].invitation_status # "accepted"
                            /\ ~InvitationExpired(teacher_schools[i])
                            /\ teacher_schools'[i].invitation_status = "accepted"
                            /\ teacher_schools'[i].invitation_token = last'.token
                 /\ (\E i \in presented :
                        \/ teacher_schools[i].invitation_status = "accepted"
                        \/ InvitationExpired(teacher_schools[i]))
                      => /\ last'.response.status = 400
                         /\ UNCHANGED <<teacher_schools, users, user_roles>>
       /\ \A i \in DOMAIN teacher_schools :
             /\ teacher_schools[i].invitation_status = "accepted"
                /\ teacher_schools'[i] # teacher_schools[i]
                  => last'.op = "resend_teacher_invitation"
             /\ teacher_schools[i].invitation_status # "pending"
                /\ teacher_schools'[i].invitation_status = "pending"
                  => last'.op = "resend_teacher_invitation"]_vars

\* an accepted invitation was presented again and refused; and an invitation that was
\* accepted and resent is pending again under a new token
C30_Witness ==
    /\ last.op = "accept_teacher_invitation"
    /\ last.response = BadRequest("Invitation has already been accepted")
    /\ \E i \in RowsOfToken(teacher_schools, last.token) :
          /\ teacher_schools[i].invitation_status = "accepted"
          /\ teacher_schools[i].invitation_token # InvitationTokens[1]

====
